---- MODULE Spec2Model ----
(***************************************************************************)
(* Model of the AOP network visualizer: the hypergraph builder             *)
(* (backend/src/hypergraph_utils.py) with the /hypergraph request handler  *)
(* (backend/src/main.py), specification Spec; the path finder and its      *)
(* handlers (backend/src/main.py), specification PathSpec; and the         *)
(* community detector (backend/src/hypergraph_utils.py), specification     *)
(* CommunitySpec; and the enumeration of initiating-event-to-outcome       *)
(* paths, specification MieAoSpec.  While one of them runs the others are  *)
(* idle.                                                                   *)
(*                                                                         *)
(* A Python string is a sequence of atoms.  An atom is one character       *)
(* (every separator and every digit is an atom of its own) or a word with  *)
(* no separator and no digit in it.  String formatting is concatenation.   *)
(* A dictionary key that is absent is the value Missing.                   *)
(***************************************************************************)
EXTENDS Integers, Sequences, FiniteSets, TLC

\* ------------------------------------------------------------------ bounds
MaxNodes == 3
MaxEdges == 3
MaxMinNodes == 2
MaxRuns == 2
MaxPathEdges == 3
MaxK == 2

\* -------------------------------------------------------- python helpers
Missing == <<"<missing>">>

\* dict.get(key, default)
Get(v, default) == IF v = Missing THEN default ELSE v

\* truth value of dict.get(key): None and '' are falsy
Truthy(v) == v # Missing /\ v # <<>>

Digits == {"0", "1", "2", "3", "4", "5", "6", "7", "8", "9"}

DigitChar == <<"0", "1", "2", "3", "4", "5", "6", "7", "8", "9">>

\* str(i) of a non-negative integer
RECURSIVE IntStr(_)
IntStr(n) ==
  IF n < 10 THEN <<DigitChar[n + 1]>>
  ELSE IntStr(n \div 10) \o <<DigitChar[(n % 10) + 1]>>

Max2(a, b) == IF a >= b THEN a ELSE b

\* ''.join(ch for ch in s if ch.isdigit())
RECURSIVE DigitsOnly(_)
DigitsOnly(s) ==
  IF s = <<>> THEN <<>>
  ELSE (IF Head(s) \in Digits THEN <<Head(s)>> ELSE <<>>) \o DigitsOnly(Tail(s))

\* val.split(':')[0]: the part before the first separator
RECURSIVE FirstPart(_)
FirstPart(s) ==
  IF s = <<>> \/ Head(s) = ":" THEN <<>>
  ELSE <<Head(s)>> \o FirstPart(Tail(s))

\* val.split(':')[-1]
RECURSIVE LastPart(_)
LastPart(s) ==
  IF \E i \in 1..Len(s) : s[i] = ":"
  THEN LastPart(Tail(s))
  ELSE s

\* string strictly without digits
HasDigit(s) == \E i \in 1..Len(s) : s[i] \in Digits

\* needle in haystack, for a needle that is one atom
Contains(haystack, needle) == \E i \in 1..Len(haystack) : haystack[i] = needle

\* ------------------------------------------------------ the input domain
NodeId(i) == <<"n", DigitChar[i + 1]>>

\* node attribute profiles (type, aop_id, aop) for the grouping by type
TypeProfiles ==
  { [type |-> <<"KeyEvent">>,       aop_id |-> Missing, aop |-> <<"Aop", ":", "1", "2">>],
    [type |-> <<"AdverseOutcome">>, aop_id |-> Missing, aop |-> Missing],
    [type |-> Missing,              aop_id |-> Missing, aop |-> Missing],
    [type |-> <<>>,                 aop_id |-> Missing, aop |-> Missing],
    [type |-> <<"Stressor">>, aop_id |-> <<"Aop", ":", "3", "1", "5">>, aop |-> Missing] }

\* node attribute profiles for the grouping of stressors by pathway
StressorProfiles ==
  { [type |-> <<"AdverseOutcome">>, aop_id |-> Missing, aop |-> Missing],
    [type |-> <<"Stressor">>, aop_id |-> <<"Aop", ":", "3", "1", "5">>, aop |-> Missing],
    [type |-> <<"Stressor">>, aop_id |-> Missing, aop |-> <<"AOP", ":", "3", "1", "5">>],
    [type |-> <<"Stressor">>, aop_id |-> <<"3", "1", "5">>, aop |-> <<"Aop", ":", "1", "2">>],
    [type |-> <<"Stressor">>, aop_id |-> <<>>,    aop |-> <<"1", "2">>],
    [type |-> <<"Stressor">>, aop_id |-> Missing, aop |-> <<"none">>] }

\* node types of which one ends in a dash and a number
NumberedTypeProfiles ==
  { [type |-> <<"KeyEvent">>,           aop_id |-> Missing, aop |-> Missing],
    [type |-> <<"KeyEvent", "-", "1">>, aop_id |-> Missing, aop |-> Missing] }

MkNode(i, p) == [id |-> NodeId(i), type |-> p.type, aop_id |-> p.aop_id, aop |-> p.aop]

\* node lists with pairwise distinct ids (the loader keys its node table by id)
NodeLists(profiles, max) ==
  UNION { { [i \in 1..n |-> MkNode(i, f[i])] : f \in [1..n -> profiles] } : n \in 0..max }

EdgePool ==
  { [source |-> <<"A">>, target |-> <<"B">>, type |-> Missing, aop |-> <<"Aop", ":", "1">>],
    [source |-> <<"A">>, target |-> <<"B">>, type |-> <<>>,    aop |-> <<"Aop", ":", "2">>],
    [source |-> <<"A">>, target |-> <<"B">>, type |-> <<"causal">>, aop |-> <<"Aop", ":", "1">>],
    [source |-> <<"A">>, target |-> <<"B", ":", "x">>, type |-> <<>>, aop |-> <<"Aop", ":", "1">>],
    [source |-> <<"A">>, target |-> <<"B">>, type |-> <<"x", ":">>, aop |-> <<"Aop", ":", "2">>] }

EdgeLists(max) == UNION { [1..n -> EdgePool] : n \in 0..max }

\* min_nodes values the type grouping is tried with
MinNodesValues == (-1)..MaxMinNodes

\* create_hypergraph_elements(..., min_nodes: int = 1, ...)
DefaultMinNodes == 1

\* int(data.get('min_nodes', 4))
EndpointDefaultMinNodes == 4

\* fixed node lists used while the edge list varies
FewNodeLists ==
  { <<>>,
    << [id |-> <<"A">>, type |-> <<"KeyEvent">>, aop_id |-> Missing, aop |-> Missing],
       [id |-> <<"B">>, type |-> <<"AdverseOutcome">>, aop_id |-> Missing, aop |-> Missing] >>,
    << [id |-> <<"A">>, type |-> <<"KeyEvent">>, aop_id |-> Missing, aop |-> <<"Aop", ":", "1">>],
       [id |-> <<"B">>, type |-> <<"AdverseOutcome">>, aop_id |-> Missing, aop |-> <<"Aop", ":", "2">>] >> }

\* the chemical table of the loaded data set: pathway id -> chemicals
ChemicalMaps ==
  { <<>>,
    << [aop |-> <<"Aop", ":", "1">>, chemicals |-> << <<"chem_x">> >>] >> }

VARIABLES
  caller,                      \* "direct" or "endpoint"
  nodes, edges, min_nodes, exclude_stressor_hypernodes,   \* the call's arguments
  aop_chemical_map,            \* aop_data['aop_chemical_map']
  processor_graph,             \* HypergraphProcessor.graph
  pc,                          \* position in the call
  run,                         \* number of the build on this input
  unique_edges, input_duplicates_removed,
  hypernodes, hypernode_connections,
  connections_created, duplicates_removed,
  result, prev_result,
  response

\* the variables of the hypergraph builder and of the /hypergraph handler
hypergraph_vars ==
  <<caller, nodes, edges, min_nodes, exclude_stressor_hypernodes,
    aop_chemical_map, processor_graph, pc, run,
    unique_edges, input_duplicates_removed,
    hypernodes, hypernode_connections,
    connections_created, duplicates_removed,
    result, prev_result, response>>

VARIABLES
  path_op,                     \* "shortest" or "k_shortest"
  path_via,                    \* "direct", or "endpoint" for a request to the handler
  path_data,                   \* the graph data: [nodes, edges]
  path_start, path_end,        \* start and end (the request's source and target)
  path_k_arg, path_k,          \* the request's k argument and the k of the call
  graph,                       \* the adjacency defaultdict, in insertion order
  queue, visited, paths,       \* the locals of the running search
  insertions, path_orders,     \* bookkeeping: frontier insertions so far, and those of paths
  path_pc,                     \* position in the path query
  path_result,                 \* what the search function returned
  path_response                \* what the handler answered

path_vars ==
  <<path_op, path_via, path_data, path_start, path_end, path_k_arg, path_k,
    graph, queue, visited, paths, insertions, path_orders,
    path_pc, path_result, path_response>>

VARIABLES
  cd_method, cd_kwargs,        \* detect_communities: method and the keyword arguments passed
  cd_nodes, cd_edges,          \* its nodes and edges
  cd_graph,                    \* processor.graph
  cd_lib,                      \* which of the clustering library's routines fail in this call
  cd_pc,                       \* position in the call
  cd_result                    \* the value returned, or the exception propagated

community_vars ==
  <<cd_method, cd_kwargs, cd_nodes, cd_edges, cd_graph, cd_lib, cd_pc, cd_result>>

VARIABLES
  mie_data,                    \* find_mie_to_ao_paths: the graph data [nodes, edges]
  mie_k, mie_path_type,        \* its k and its path_type, "shortest" or "longest"
  mie_nodes, mie_ao_nodes,     \* the ids of the selected initiating events and outcomes
  mie_graph,                   \* the adjacency map of the data
  mie_pair,                    \* the pairs searched so far
  mie_found,                   \* the path entries of the pairs searched so far
  mie_pc,                      \* position in the call
  mie_result                   \* the value returned, or the exception raised

mie_vars ==
  <<mie_data, mie_k, mie_path_type, mie_nodes, mie_ao_nodes, mie_graph, mie_pair,
    mie_found, mie_pc, mie_result>>

vars == <<hypergraph_vars, path_vars, community_vars, mie_vars>>

inputs == <<caller, nodes, edges, min_nodes, exclude_stressor_hypernodes, aop_chemical_map>>

\* ----------------------------------------------------------- constructors
NoGraph == [nodes |-> {}, edges |-> {}, built |-> FALSE]

NoStats ==
  [original_nodes |-> 0, original_edges |-> 0, hypernodes |-> 0,
   hypernode_connections |-> 0, total_nodes |-> 0, total_edges |-> 0,
   stressor_nodes |-> 0, stressor_hypernodes |-> 0]

NoResult == [hypernodes |-> <<>>, hypernode_connections |-> <<>>, edges |-> <<>>, stats |-> NoStats]

NoResponse == [status |-> 0, nodes |-> <<>>, edges |-> <<>>]

\* ------------------------------------------------------- build_networkx_graph
BuiltGraph(ns, es) ==
  LET ids == { ns[i].id : i \in 1..Len(ns) }
  IN  [nodes |-> ids,
       edges |-> { {es[i].source, es[i].target} :
                     i \in { j \in 1..Len(es) :
                               /\ Truthy(es[j].source) /\ Truthy(es[j].target)
                               /\ es[j].source \in ids /\ es[j].target \in ids } },
       built |-> TRUE]

\* ----------------------------------------------------------- input dedup
\* f"{source}->{target}:{edge_type}"
edge_key(edge) ==
  Get(edge.source, <<>>) \o <<"->">> \o Get(edge.target, <<>>) \o <<":">> \o Get(edge.type, <<>>)

\* the loop without the seen-set test: every edge is kept
RECURSIVE DedupLoopKeepAll(_, _, _, _)
DedupLoopKeepAll(es, i, seen_edges, unique) ==
  IF i > Len(es) THEN unique
  ELSE DedupLoopKeepAll(es, i + 1, seen_edges \cup {edge_key(es[i])}, Append(unique, es[i]))

RECURSIVE DedupLoop(_, _, _, _)
DedupLoop(es, i, seen_edges, unique) ==
  IF i > Len(es) THEN unique
  ELSE IF edge_key(es[i]) \notin seen_edges
       THEN DedupLoop(es, i + 1, seen_edges \cup {edge_key(es[i])}, Append(unique, es[i]))
       ELSE DedupLoop(es, i + 1, seen_edges, unique)

DedupInputEdges(es) == DedupLoop(es, 1, {}, <<>>)

\* ------------------------------------------------------ pathway-id helper
\* _extract_aop_id for a string value
extract_aop_id(val) == DigitsOnly(LastPart(val))

\* ---------------------------------------------------- group_nodes_by_type
\* type_groups as the insertion-ordered dict: a sequence of [type, members]
RECURSIVE GroupLoop(_, _, _)
GroupLoop(ns, i, groups) ==
  IF i > Len(ns) THEN groups
  ELSE LET node_type == Get(ns[i].type, <<"Unknown">>)
       IN  IF node_type = <<"Stressor">>
           THEN GroupLoop(ns, i + 1, groups)
           ELSE IF \E k \in 1..Len(groups) : groups[k].type = node_type
                THEN GroupLoop(ns, i + 1,
                       [k \in 1..Len(groups) |->
                          IF groups[k].type = node_type
                          THEN [groups[k] EXCEPT !.members = Append(@, ns[i].id)]
                          ELSE groups[k]])
                ELSE GroupLoop(ns, i + 1,
                       Append(groups, [type |-> node_type, members |-> <<ns[i].id>>]))

group_nodes_by_type(ns) == GroupLoop(ns, 1, <<>>)

\* max(1, int(min_nodes))
max_per_hypernode_of(m) == Max2(1, m)

\* members[start:start + n + 1]: chunks that overlap by one member
SliceOneMore(members, start, n) ==
  SubSeq(members, start + 1, IF start + n + 1 > Len(members) THEN Len(members) ELSE start + n + 1)

\* members[start:start + n] for a 0-based start
Slice(members, start, n) ==
  SubSeq(members, start + 1, IF start + n > Len(members) THEN Len(members) ELSE start + n)

type_hypernode_id(group_type, chunk_index, total, m) ==
  IF total > m
  THEN <<"type-hypernode-">> \o group_type \o <<"-">> \o IntStr(chunk_index)
  ELSE <<"type-hypernode-">> \o group_type

\* for start in range(0, total, max_per_hypernode): one hypernode per chunk
RECURSIVE ChunkLoop(_, _, _, _, _)
ChunkLoop(group, start, chunk_index, m, acc) ==
  IF start >= Len(group.members) THEN acc
  ELSE LET chunk == Slice(group.members, start, m)
           hn == [id |-> type_hypernode_id(group.type, chunk_index + 1, Len(group.members), m),
                  type |-> <<"type-hypernode">>,
                  original_type |-> group.type,
                  aop |-> Missing,
                  aop_id |-> Missing,
                  member_count |-> Len(chunk),
                  members |-> chunk]
       IN  ChunkLoop(group, start + m, chunk_index + 1, m, Append(acc, hn))

\* for group_type, group_data in type_groups['groups'].items()
RECURSIVE TypeHypernodes(_, _, _)
TypeHypernodes(groups, k, m) ==
  IF k > Len(groups) THEN <<>>
  ELSE ChunkLoop(groups[k], 0, 0, m, <<>>) \o TypeHypernodes(groups, k + 1, m)

\* connections from the members of one hypernode to it
MemberConnections(hn, conn_type) ==
  [j \in 1..Len(hn.members) |->
     [id |-> hn.members[j] \o <<"-">> \o hn.id,
      source |-> hn.members[j],
      target |-> hn.id,
      type |-> conn_type]]

RECURSIVE ConnectionsOf(_, _, _)
ConnectionsOf(hns, k, conn_type) ==
  IF k > Len(hns) THEN <<>>
  ELSE MemberConnections(hns[k], conn_type) \o ConnectionsOf(hns, k + 1, conn_type)

\* ------------------------------------------------------ stressor grouping
\* stressor_nodes = [n for n in nodes if n.get('type') == 'Stressor']
stressor_nodes_of(ns) == SelectSeq(ns, LAMBDA n : n.type = <<"Stressor">>)

\* aop_raw = stressor.get('aop_id') or stressor.get('aop') or ''
aop_raw_of(stressor) ==
  IF Truthy(stressor.aop_id) THEN stressor.aop_id
  ELSE IF Truthy(stressor.aop) THEN stressor.aop
  ELSE <<>>

\* aop_key = _extract_aop_id(aop_raw) or 'unknown'
aop_key_of(stressor) ==
  IF extract_aop_id(aop_raw_of(stressor)) # <<>>
  THEN extract_aop_id(aop_raw_of(stressor))
  ELSE <<"unknown">>

\* stressors_by_aop as the insertion-ordered dict: a sequence of [aop_key, stressors]
RECURSIVE StressorGroupLoop(_, _, _)
StressorGroupLoop(ss, i, groups) ==
  IF i > Len(ss) THEN groups
  ELSE LET aop_key == aop_key_of(ss[i])
       IN  IF aop_key # <<>> /\ aop_key # <<"unknown">>
           THEN IF \E k \in 1..Len(groups) : groups[k].aop_key = aop_key
                THEN StressorGroupLoop(ss, i + 1,
                       [k \in 1..Len(groups) |->
                          IF groups[k].aop_key = aop_key
                          THEN [groups[k] EXCEPT !.stressors = Append(@, ss[i])]
                          ELSE groups[k]])
                ELSE StressorGroupLoop(ss, i + 1,
                       Append(groups, [aop_key |-> aop_key, stressors |-> <<ss[i]>>]))
           ELSE StressorGroupLoop(ss, i + 1, groups)

stressors_by_aop(ss) == StressorGroupLoop(ss, 1, <<>>)

stressor_hypernode_id(aop_key) == <<"stressor-hypernode-aop-">> \o aop_key

\* the hypernode of one pathway group
StressorHypernode(group) ==
  [id |-> stressor_hypernode_id(group.aop_key),
   type |-> <<"stressor-hypernode">>,
   original_type |-> Missing,
   aop |-> group.aop_key,
   aop_id |-> Get(group.stressors[1].aop_id, group.aop_key),
   member_count |-> Len(group.stressors),
   members |-> [j \in 1..Len(group.stressors) |-> group.stressors[j].id]]

StressorHypernodes(groups) == [k \in 1..Len(groups) |-> StressorHypernode(groups[k])]

\* [h for h in hypernodes if h.get('type') == 'stressor-hypernode']
stressor_hypernodes_of(hns) == SelectSeq(hns, LAMBDA h : h.type = <<"stressor-hypernode">>)

\* the connection test that never finds an existing connection
never_connected(conns, s, t) == FALSE

\* any(conn.source == s and conn.target == t for conn in hypernode_connections)
already_connected(conns, s, t) ==
  \E c \in 1..Len(conns) : conns[c].source = s /\ conns[c].target = t

\* aop_hypernode_map.get(aop_key): the last stressor-hypernode stored under that aop_id
aop_hypernode_lookup(shns, aop_key) ==
  LET hits == { k \in 1..Len(shns) : shns[k].aop_id = aop_key }
  IN  IF hits = {} THEN 0 ELSE CHOOSE k \in hits : \A j \in hits : j <= k

\* for stressor in stressor_nodes: connect to its pathway hypernode if not yet connected
RECURSIVE EnsureLoop(_, _, _, _)
EnsureLoop(ss, i, shns, conns) ==
  IF i > Len(ss) THEN conns
  ELSE LET k == aop_hypernode_lookup(shns, aop_key_of(ss[i]))
       IN  IF k # 0 /\ ~already_connected(conns, ss[i].id, shns[k].id)
           THEN EnsureLoop(ss, i + 1, shns,
                  Append(conns,
                    [id |-> <<"stressor-">> \o ss[i].id \o <<"-to-aop-">> \o shns[k].id,
                     source |-> ss[i].id,
                     target |-> shns[k].id,
                     type |-> <<"stressor-to-aop-hypernode">>]))
           ELSE EnsureLoop(ss, i + 1, shns, conns)

\* ---------------------------------------------------------------- cross-link
\* every type-hypernode, whatever its original_type
any_type_hypernodes_of(hns) == SelectSeq(hns, LAMBDA h : h.type = <<"type-hypernode">>)

\* type-hypernodes with 'AdverseOutcome' in original_type
adverse_outcome_hypernodes_of(hns) ==
  SelectSeq(hns, LAMBDA h : /\ h.type = <<"type-hypernode">>
                            /\ Contains(Get(h.original_type, <<>>), "AdverseOutcome"))

\* the cross-link to the last outcome hypernode instead of the first
RECURSIVE CrossLinkLoopLast(_, _, _, _)
CrossLinkLoopLast(shns, i, aohns, conns) ==
  IF i > Len(shns) THEN conns
  ELSE IF aohns # <<>> /\ ~already_connected(conns, shns[i].id, aohns[Len(aohns)].id)
       THEN CrossLinkLoopLast(shns, i + 1, aohns,
              Append(conns,
                [id |-> <<"stressor-to-adverse-">> \o shns[i].id \o <<"-">> \o aohns[Len(aohns)].id,
                 source |-> shns[i].id,
                 target |-> aohns[Len(aohns)].id,
                 type |-> <<"stressor-adverse-hyperedge">>]))
       ELSE CrossLinkLoopLast(shns, i + 1, aohns, conns)

\* for stressor_hn in stressor_hypernodes: one hyperedge to the first outcome hypernode
RECURSIVE CrossLinkLoop(_, _, _, _)
CrossLinkLoop(shns, i, aohns, conns) ==
  IF i > Len(shns) THEN conns
  ELSE IF aohns # <<>> /\ ~already_connected(conns, shns[i].id, aohns[1].id)
       THEN CrossLinkLoop(shns, i + 1, aohns,
              Append(conns,
                [id |-> <<"stressor-to-adverse-">> \o shns[i].id \o <<"-">> \o aohns[1].id,
                 source |-> shns[i].id,
                 target |-> aohns[1].id,
                 type |-> <<"stressor-adverse-hyperedge">>]))
       ELSE CrossLinkLoop(shns, i + 1, aohns, conns)

\* --------------------------------------------------------------- final dedup
\* f"{source}->{target}:{conn_type}"
connection_key(conn) ==
  Get(conn.source, <<>>) \o <<"->">> \o Get(conn.target, <<>>) \o <<":">> \o Get(conn.type, <<>>)

RECURSIVE ConnDedupLoop(_, _, _, _)
ConnDedupLoop(conns, i, seen_connections, unique) ==
  IF i > Len(conns) THEN unique
  ELSE IF connection_key(conns[i]) \notin seen_connections
       THEN ConnDedupLoop(conns, i + 1, seen_connections \cup {connection_key(conns[i])},
                          Append(unique, conns[i]))
       ELSE ConnDedupLoop(conns, i + 1, seen_connections, unique)

DedupConnections(conns) == ConnDedupLoop(conns, 1, {}, <<>>)

\* ------------------------------------------------------------------- stats
StatsOf(ns, es, hns, conns) ==
  [original_nodes |-> Len(ns),
   original_edges |-> Len(es),
   hypernodes |-> Len(hns),
   hypernode_connections |-> Len(conns),
   total_nodes |-> Len(ns) + Len(hns),
   total_edges |-> Len(es) + Len(conns),
   stressor_nodes |-> Len(stressor_nodes_of(ns)),
   stressor_hypernodes |-> Len(stressor_hypernodes_of(hns))]

\* ------------------------------------------------- /hypergraph response
\* int(data.get('splitnode', 8))
DefaultSplitNode == 8

\* str(t).upper() for the type words of the input domain
UpperWord(a) ==
  CASE a = "AdverseOutcome" -> "ADVERSEOUTCOME"
    [] a = "KeyEvent" -> "KEYEVENT"
    [] a = "Stressor" -> "STRESSOR"
    [] OTHER -> a

Upper(s) == [i \in 1..Len(s) |-> UpperWord(s[i])]

\* {nd.get('aop') for nd in nodes if nd.get('aop')}
inferred_aops(ns) == { ns[i].aop : i \in { j \in 1..Len(ns) : Truthy(ns[j].aop) } }

\* list(set): the orders in which a set can be iterated
Orderings(S) ==
  { f \in [1..Cardinality(S) -> S] : \A i, j \in 1..Cardinality(S) : i # j => f[i] # f[j] }

\* aop_chemical_map.get(aop_sel, [])
chemicals_for(map, aop_sel) ==
  IF \E k \in 1..Len(map) : map[k].aop = aop_sel
  THEN map[CHOOSE k \in 1..Len(map) : map[k].aop = aop_sel].chemicals
  ELSE <<>>

\* ao_nodes[0] if ao_nodes else aop_nodes_this[0].get('id'), or Missing for None
target_node_id(ns, aop_sel) ==
  LET aop_nodes_this == SelectSeq(ns, LAMBDA n : n.aop = aop_sel)
      ao_nodes == SelectSeq(aop_nodes_this,
                    LAMBDA n : Upper(Get(n.type, <<>>)) \in {<<"ADVERSEOUTCOME">>, <<"AO">>})
  IN  IF ao_nodes # <<>> THEN ao_nodes[1].id
      ELSE IF aop_nodes_this # <<>> THEN aop_nodes_this[1].id
      ELSE Missing

\* one hyperedge per chunk of splitnode chemicals of one pathway
RECURSIVE ChemChunkLoop(_, _, _, _, _, _)
ChemChunkLoop(chemicals, start, idx, aop_sel, target, acc) ==
  IF start >= Len(chemicals) THEN acc
  ELSE LET hn_id == <<"chem-hypernode-">> \o aop_sel \o <<"-">> \o IntStr(idx)
       IN  ChemChunkLoop(chemicals, start + DefaultSplitNode, idx + 1, aop_sel, target,
             Append(acc, [id |-> <<"edge_">> \o hn_id \o <<"_to_">> \o target,
                          source |-> hn_id,
                          target |-> target,
                          type |-> <<"chemical_hyperedge">>,
                          aop |-> aop_sel]))

RECURSIVE chem_hyperedges_of(_, _, _, _)
chem_hyperedges_of(selected_aops, k, ns, map) ==
  IF k > Len(selected_aops) THEN <<>>
  ELSE LET aop_sel == selected_aops[k]
           target == target_node_id(ns, aop_sel)
           chemicals == chemicals_for(map, aop_sel)
       IN  (IF Truthy(target) /\ chemicals # <<>> /\ Truthy(aop_sel)
            THEN ChemChunkLoop(chemicals, 0, 1, aop_sel, target, <<>>)
            ELSE <<>>)
           \o chem_hyperedges_of(selected_aops, k + 1, ns, map)

\* a connection as an entry of the response's edge list
AsEdge(conn) ==
  [id |-> conn.id, source |-> conn.source, target |-> conn.target,
   type |-> conn.type, aop |-> Missing]

\* an input edge as an entry of the response's edge list
InputAsEdge(e) ==
  [id |-> Missing, source |-> e.source, target |-> e.target, type |-> e.type, aop |-> e.aop]

\* enhanced_data['edges']
response_edges(request_edges, selected_aops, ns, map, res) ==
  IF selected_aops # <<>>
  THEN [i \in 1..Len(request_edges) |-> InputAsEdge(request_edges[i])]
       \o chem_hyperedges_of(selected_aops, 1, ns, map)
  ELSE [i \in 1..Len(request_edges) |-> InputAsEdge(request_edges[i])]
       \o [i \in 1..Len(res.hypernode_connections) |-> AsEdge(res.hypernode_connections[i])]

\* the lists kept from the previous call instead of new ones
kept_list(stale) == stale

\* hypernodes = [], hyperedges = [], hypernode_connections = []: new lists in every call
fresh_list(stale) == <<>>

\* Python's None
None == <<"<none>">>

NoPathResponse == [status |-> 0, body |-> None]

\* no path query is running
PathIdle ==
  /\ path_op = "none"
  /\ path_via = "none"
  /\ path_data = [nodes |-> <<>>, edges |-> <<>>]
  /\ path_start = None
  /\ path_end = None
  /\ path_k_arg = Missing
  /\ path_k = 0
  /\ graph = <<>>
  /\ queue = <<>>
  /\ visited = {}
  /\ paths = <<>>
  /\ insertions = 0
  /\ path_orders = <<>>
  /\ path_pc = "idle"
  /\ path_result = None
  /\ path_response = NoPathResponse

\* no community detection is running
CommunityIdle ==
  /\ cd_method = "none"
  /\ cd_kwargs = {}
  /\ cd_nodes = <<>>
  /\ cd_edges = <<>>
  /\ cd_graph = NoGraph
  /\ cd_lib = {}
  /\ cd_pc = "idle"
  /\ cd_result = None

\* no enumeration of initiating-event-to-outcome paths is running
MieIdle ==
  /\ mie_data = [nodes |-> <<>>, edges |-> <<>>]
  /\ mie_k = 0
  /\ mie_path_type = "none"
  /\ mie_nodes = <<>>
  /\ mie_ao_nodes = <<>>
  /\ mie_graph = <<>>
  /\ mie_pair = 0
  /\ mie_found = <<>>
  /\ mie_pc = "idle"
  /\ mie_result = None

\* no hypergraph build is running
HypergraphIdle ==
  /\ caller = "none"
  /\ nodes = <<>>
  /\ edges = <<>>
  /\ min_nodes = DefaultMinNodes
  /\ exclude_stressor_hypernodes = FALSE
  /\ aop_chemical_map = <<>>
  /\ processor_graph = NoGraph
  /\ pc = "idle"
  /\ run = 1
  /\ unique_edges = <<>>
  /\ input_duplicates_removed = 0
  /\ hypernodes = <<>>
  /\ hypernode_connections = <<>>
  /\ connections_created = 0
  /\ duplicates_removed = 0
  /\ result = NoResult
  /\ prev_result = NoResult
  /\ response = NoResponse

Init ==
  /\ \/ /\ caller = "direct"
        /\ nodes \in NodeLists(TypeProfiles, MaxNodes)
        /\ edges = <<>>
        /\ min_nodes \in MinNodesValues
        /\ exclude_stressor_hypernodes = FALSE
        /\ aop_chemical_map = <<>>
     \/ /\ caller = "direct"
        /\ nodes \in NodeLists(StressorProfiles, MaxNodes)
        /\ edges = <<>>
        /\ min_nodes = DefaultMinNodes
        /\ exclude_stressor_hypernodes \in BOOLEAN
        /\ aop_chemical_map = <<>>
     \/ /\ caller = "direct"
        /\ nodes \in NodeLists(NumberedTypeProfiles, MaxNodes)
        /\ edges = <<>>
        /\ min_nodes = DefaultMinNodes
        /\ exclude_stressor_hypernodes = FALSE
        /\ aop_chemical_map = <<>>
     \/ /\ caller = "direct"
        /\ nodes \in FewNodeLists
        /\ edges \in EdgeLists(MaxEdges)
        /\ min_nodes = DefaultMinNodes
        /\ exclude_stressor_hypernodes = FALSE
        /\ aop_chemical_map = <<>>
     \/ /\ caller = "endpoint"
        /\ nodes \in FewNodeLists \ {<<>>}
        /\ edges \in EdgeLists(MaxEdges) \ {<<>>}
        /\ min_nodes = EndpointDefaultMinNodes
        /\ exclude_stressor_hypernodes = FALSE
        /\ aop_chemical_map \in ChemicalMaps
  /\ PathIdle
  /\ CommunityIdle
  /\ MieIdle
  /\ processor_graph = NoGraph
  /\ pc = IF caller = "endpoint" THEN "start" ELSE "dedup_input"
  /\ run = 1
  /\ unique_edges = <<>>
  /\ input_duplicates_removed = 0
  /\ hypernodes = <<>>
  /\ hypernode_connections = <<>>
  /\ connections_created = 0
  /\ duplicates_removed = 0
  /\ result = NoResult
  /\ prev_result = NoResult
  /\ response = NoResponse

\* create_hypergraph: processor.build_networkx_graph(nodes, edges)
BuildNetworkxGraph ==
  /\ pc = "start"
  /\ caller = "endpoint"
  /\ processor_graph' = BuiltGraph(nodes, edges)
  /\ pc' = "dedup_input"
  /\ UNCHANGED <<inputs, run, unique_edges, input_duplicates_removed, hypernodes,
                 hypernode_connections, connections_created, duplicates_removed,
                 result, prev_result, response>>
  /\ UNCHANGED <<path_vars, community_vars, mie_vars>>

\* create_hypergraph_elements, lines 325-350
DeduplicateInputEdges ==
  /\ pc = "dedup_input"
  /\ unique_edges' = DedupInputEdges(edges)
  /\ input_duplicates_removed' = Len(edges) - Len(unique_edges')
  /\ hypernodes' = fresh_list(hypernodes)
  /\ hypernode_connections' = fresh_list(hypernode_connections)
  /\ pc' = "type_hypernodes"
  /\ UNCHANGED <<inputs, processor_graph, run, connections_created,
                 duplicates_removed, result, prev_result, response>>
  /\ UNCHANGED <<path_vars, community_vars, mie_vars>>

\* create_hypergraph_elements, lines 363-405
CreateTypeHypernodes ==
  /\ pc = "type_hypernodes"
  /\ LET hns == TypeHypernodes(group_nodes_by_type(nodes), 1, max_per_hypernode_of(min_nodes))
     IN  /\ hypernodes' = hypernodes \o hns
         /\ hypernode_connections' =
              hypernode_connections \o ConnectionsOf(hns, 1, <<"hypernode-connection">>)
  /\ pc' = "stressor_hypernodes"
  /\ UNCHANGED <<inputs, processor_graph, run, unique_edges, input_duplicates_removed,
                 connections_created, duplicates_removed, result, prev_result, response>>
  /\ UNCHANGED <<path_vars, community_vars, mie_vars>>

\* create_hypergraph_elements, lines 410-493
CreateStressorHypernodes ==
  /\ pc = "stressor_hypernodes"
  /\ IF stressor_nodes_of(nodes) # <<>> /\ ~exclude_stressor_hypernodes
     THEN LET hns == StressorHypernodes(stressors_by_aop(stressor_nodes_of(nodes)))
          IN  /\ hypernodes' = hypernodes \o hns
              /\ hypernode_connections' =
                   hypernode_connections \o ConnectionsOf(hns, 1, <<"stressor-connection">>)
     ELSE UNCHANGED <<hypernodes, hypernode_connections>>
  /\ pc' = "ensure_connected"
  /\ UNCHANGED <<inputs, processor_graph, run, unique_edges, input_duplicates_removed,
                 connections_created, duplicates_removed, result, prev_result, response>>
  /\ UNCHANGED <<path_vars, community_vars, mie_vars>>

\* create_hypergraph_elements, lines 495-521
EnsureStressorsConnected ==
  /\ pc = "ensure_connected"
  /\ hypernode_connections' =
       EnsureLoop(stressor_nodes_of(nodes), 1, stressor_hypernodes_of(hypernodes),
                  hypernode_connections)
  /\ pc' = "cross_link"
  /\ UNCHANGED <<inputs, processor_graph, run, unique_edges, input_duplicates_removed,
                 hypernodes, connections_created, duplicates_removed,
                 result, prev_result, response>>
  /\ UNCHANGED <<path_vars, community_vars, mie_vars>>

\* create_hypergraph_elements, lines 523-574
ConnectStressorsToAdverseOutcome ==
  /\ pc = "cross_link"
  /\ hypernode_connections' =
       CrossLinkLoop(stressor_hypernodes_of(hypernodes), 1,
                     adverse_outcome_hypernodes_of(hypernodes), hypernode_connections)
  /\ connections_created' = Len(hypernode_connections') - Len(hypernode_connections)
  /\ pc' = "dedup_connections"
  /\ UNCHANGED <<inputs, processor_graph, run, unique_edges, input_duplicates_removed,
                 hypernodes, duplicates_removed, result, prev_result, response>>
  /\ UNCHANGED <<path_vars, community_vars, mie_vars>>

\* create_hypergraph_elements, lines 576-598
DeduplicateConnections ==
  /\ pc = "dedup_connections"
  /\ hypernode_connections' = DedupConnections(hypernode_connections)
  /\ duplicates_removed' = Len(hypernode_connections) - Len(hypernode_connections')
  /\ pc' = "stats"
  /\ UNCHANGED <<inputs, processor_graph, run, unique_edges, input_duplicates_removed,
                 hypernodes, connections_created, result, prev_result, response>>
  /\ UNCHANGED <<path_vars, community_vars, mie_vars>>

\* create_hypergraph_elements, lines 600-625
ReturnResult ==
  /\ pc = "stats"
  /\ result' = [hypernodes |-> hypernodes,
                hypernode_connections |-> hypernode_connections,
                edges |-> unique_edges,
                stats |-> StatsOf(nodes, unique_edges, hypernodes, hypernode_connections)]
  /\ pc' = "returned"
  /\ UNCHANGED <<inputs, processor_graph, run, unique_edges, input_duplicates_removed,
                 hypernodes, hypernode_connections, connections_created,
                 duplicates_removed, prev_result, response>>
  /\ UNCHANGED <<path_vars, community_vars, mie_vars>>

\* create_hypergraph_endpoint, lines 942-1107: compose the response
ComposeResponse ==
  /\ pc = "returned"
  /\ caller = "endpoint"
  /\ \E selected_aops \in Orderings(inferred_aops(nodes)) :
       response' = [status |-> 200,
                    nodes |-> [i \in 1..Len(nodes) |-> nodes[i].id]
                              \o (IF selected_aops # <<>> THEN <<>>
                                  ELSE [i \in 1..Len(result.hypernodes) |-> result.hypernodes[i].id]),
                    edges |-> response_edges(edges, selected_aops, nodes, aop_chemical_map, result)]
  /\ pc' = "responded"
  /\ UNCHANGED <<inputs, processor_graph, run, unique_edges, input_duplicates_removed,
                 hypernodes, hypernode_connections, connections_created,
                 duplicates_removed, result, prev_result>>
  /\ UNCHANGED <<path_vars, community_vars, mie_vars>>

\* the same build is requested once more, on this processor or on a new one
RunAgain ==
  /\ pc = "returned"
  /\ caller = "direct"
  /\ run < MaxRuns
  /\ run' = run + 1
  /\ prev_result' = result
  /\ \E fresh \in BOOLEAN :
       processor_graph' = IF fresh THEN NoGraph ELSE BuiltGraph(nodes, edges)
  /\ pc' = "dedup_input"
  /\ UNCHANGED <<inputs, unique_edges, input_duplicates_removed, hypernodes,
                 hypernode_connections, connections_created, duplicates_removed,
                 result, response>>
  /\ UNCHANGED <<path_vars, community_vars, mie_vars>>

Next ==
  \/ BuildNetworkxGraph
  \/ DeduplicateInputEdges
  \/ CreateTypeHypernodes
  \/ CreateStressorHypernodes
  \/ EnsureStressorsConnected
  \/ ConnectStressorsToAdverseOutcome
  \/ DeduplicateConnections
  \/ ReturnResult
  \/ ComposeResponse
  \/ RunAgain

Spec == Init /\ [][Next]_vars

\* =============================================================== path finder
\* the node collection of the graph data of the direct calls
PathNodes == <<[id |-> <<"A">>], [id |-> <<"B">>], [id |-> <<"C">>]>>

PathEdgePool ==
  { [source |-> <<"A">>, target |-> <<"B">>],
    [source |-> <<"A">>, target |-> <<"C">>],
    [source |-> <<"B">>, target |-> <<"C">>],
    [source |-> <<"B">>, target |-> <<"D">>],
    [source |-> <<"C">>, target |-> <<"D">>],
    [source |-> <<"B">>, target |-> <<"A">>],
    [source |-> <<"C">>, target |-> <<"C">>],
    [source |-> Missing, target |-> <<"B">>] }

PathEdgeLists(max) == UNION { [1..n -> PathEdgePool] : n \in 0..max }

\* (start, end) of the direct calls to find_shortest_path
ShortestTerminals ==
  { <<<<"A">>, <<"A">>>>, <<<<"A">>, <<"B">>>>, <<<<"A">>, <<"C">>>>,
    <<<<"A">>, <<"D">>>>, <<<<"A">>, <<"Z">>>>, <<<<"Z">>, <<"A">>>> }

\* (start, end) of the direct calls to find_k_shortest_paths
KShortestTerminals ==
  { <<<<"A">>, <<"B">>>>, <<<<"A">>, <<"C">>>>, <<<<"A">>, <<"D">>>>, <<<<"Z">>, <<"A">>>> }

\* sample graphs: one with a two-edge and a three-edge path from A to D, and one with
\* two two-edge paths from A to D
SampleData ==
  { [nodes |-> <<[id |-> <<"A">>], [id |-> <<"B">>], [id |-> <<"C">>],
                 [id |-> <<"D">>], [id |-> <<"E">>]>>,
     edges |-> << [source |-> <<"A">>, target |-> <<"B">>],
                  [source |-> <<"A">>, target |-> <<"C">>],
                  [source |-> <<"C">>, target |-> <<"E">>],
                  [source |-> <<"E">>, target |-> <<"D">>],
                  [source |-> <<"B">>, target |-> <<"D">>] >>],
    [nodes |-> <<[id |-> <<"A">>], [id |-> <<"B">>], [id |-> <<"C">>], [id |-> <<"D">>]>>,
     edges |-> << [source |-> <<"A">>, target |-> <<"B">>],
                  [source |-> <<"A">>, target |-> <<"C">>],
                  [source |-> <<"B">>, target |-> <<"D">>],
                  [source |-> <<"C">>, target |-> <<"D">>] >>] }

\* a graph with one relationship listed three times: three edges from A to B, and a
\* two-edge path from A to B through C
ParallelData ==
  [nodes |-> PathNodes,
   edges |-> << [source |-> <<"A">>, target |-> <<"B">>],
                [source |-> <<"A">>, target |-> <<"B">>],
                [source |-> <<"A">>, target |-> <<"B">>],
                [source |-> <<"A">>, target |-> <<"C">>],
                [source |-> <<"C">>, target |-> <<"B">>] >>]

\* create_sample_data() of tests/test_pathfinding_algorithms.py
AuthorsSampleData ==
  [nodes |-> << [id |-> <<"MIE", "_", "1">>], [id |-> <<"KE", "_", "1">>],
                [id |-> <<"KE", "_", "2">>], [id |-> <<"KE", "_", "3">>],
                [id |-> <<"AO", "_", "1">>], [id |-> <<"MIE", "_", "2">>],
                [id |-> <<"KE", "_", "4">>], [id |-> <<"AO", "_", "2">>] >>,
   edges |-> << [source |-> <<"MIE", "_", "1">>, target |-> <<"KE", "_", "1">>],
                [source |-> <<"KE", "_", "1">>, target |-> <<"KE", "_", "2">>],
                [source |-> <<"KE", "_", "2">>, target |-> <<"KE", "_", "3">>],
                [source |-> <<"KE", "_", "3">>, target |-> <<"AO", "_", "1">>],
                [source |-> <<"MIE", "_", "2">>, target |-> <<"KE", "_", "4">>],
                [source |-> <<"KE", "_", "4">>, target |-> <<"KE", "_", "3">>],
                [source |-> <<"KE", "_", "1">>, target |-> <<"KE", "_", "4">>],
                [source |-> <<"KE", "_", "4">>, target |-> <<"AO", "_", "2">>] >>]

\* def find_k_shortest_paths(graph, start, end, k=3); request.args.get("k", 3)
DefaultK == 3

\* the graph data a request is answered from
EndpointData ==
  { [nodes |-> <<>>, edges |-> <<>>],
    [nodes |-> PathNodes,
     edges |-> << [source |-> <<"A">>, target |-> <<"B">>],
                  [source |-> <<"B">>, target |-> <<"C">>],
                  [source |-> <<"A">>, target |-> <<"C">>] >>],
    [nodes |-> <<[id |-> <<"A">>], [id |-> <<"B">>]>>,
     edges |-> << [source |-> <<"A">>, target |-> <<"B">>],
                  [source |-> <<"A">>, target |-> <<"B">>],
                  [source |-> <<"B">>, target |-> <<"A">>] >>] }

\* (source, target) arguments of a request; Missing is an absent argument
EndpointTerminals ==
  { <<Missing, <<"A">>>>, <<<<"A">>, <<>>>>, <<<<"A">>, <<"A">>>>,
    <<<<"A">>, <<"B">>>>, <<<<"A">>, <<"C">>>>, <<<<"C">>, <<"A">>>> }

\* k arguments of a request
KArgs ==
  { Missing, <<"x">>, <<"-", "1">> } \cup { IntStr(n) : n \in 0..MaxK }

\* int(s) accepts an optional sign and digits
IsIntLiteral(s) ==
  LET body == IF s # <<>> /\ Head(s) = "-" THEN Tail(s) ELSE s
  IN  body # <<>> /\ \A i \in 1..Len(body) : body[i] \in Digits

DigitValue(c) == CHOOSE d \in 0..9 : DigitChar[d + 1] = c

RECURSIVE NatOf(_)
NatOf(s) ==
  IF s = <<>> THEN 0
  ELSE NatOf(SubSeq(s, 1, Len(s) - 1)) * 10 + DigitValue(s[Len(s)])

\* int(s) of an integer literal
int_of(s) == IF Head(s) = "-" THEN 0 - NatOf(Tail(s)) ELSE NatOf(s)

\* ------------------------------------------------------ build_graph_from_data
HasKey(g, key) == \E i \in 1..Len(g) : g[i].key = key

\* graph[key] on a dict without a default factory: KeyError for a missing key
missing_key_raises_plain(g, key) == ~HasKey(g, key)

\* graph[key] on the defaultdict(list): a missing key never raises
missing_key_raises(g, key) == FALSE

\* the value of graph[key]: the list under key, a new [] for a missing key
graph_get(g, key) ==
  IF HasKey(g, key) THEN g[CHOOSE i \in 1..Len(g) : g[i].key = key].targets ELSE <<>>

\* the defaultdict after the access graph[key]: a missing key has been inserted
graph_after_get(g, key) ==
  IF HasKey(g, key) THEN g ELSE Append(g, [key |-> key, targets |-> <<>>])

\* graph[source].insert(0, target)
graph_prepend(g, source, target) ==
  IF HasKey(g, source)
  THEN [i \in 1..Len(g) |->
          IF g[i].key = source THEN [g[i] EXCEPT !.targets = <<target>> \o @] ELSE g[i]]
  ELSE Append(g, [key |-> source, targets |-> <<target>>])

\* graph[source].append(target)
graph_append(g, source, target) ==
  IF HasKey(g, source)
  THEN [i \in 1..Len(g) |->
          IF g[i].key = source THEN [g[i] EXCEPT !.targets = Append(@, target)] ELSE g[i]]
  ELSE Append(g, [key |-> source, targets |-> <<target>>])

\* for edge in data.get('edges', []): if source and target: graph[source].append(target)
RECURSIVE BuildLoop(_, _, _)
BuildLoop(es, i, g) ==
  IF i > Len(es) THEN g
  ELSE IF Truthy(es[i].source) /\ Truthy(es[i].target)
       THEN BuildLoop(es, i + 1, graph_append(g, es[i].source, es[i].target))
       ELSE BuildLoop(es, i + 1, g)

build_graph_from_data(data) == BuildLoop(data.edges, 1, <<>>)

\* ------------------------------------------------------- find_shortest_path
\* queue.pop(): the entry appended last
pop_right(q) == [entry |-> q[Len(q)], rest |-> SubSeq(q, 1, Len(q) - 1)]

\* queue[0]: the first entry is read and stays in the queue
peek_left(q) == [entry |-> Head(q), rest |-> q]

\* queue.popleft()
popleft(q) == [entry |-> Head(q), rest |-> Tail(q)]

\* for neighbor in graph[node]: return the path on reaching end, else enqueue the unvisited
RECURSIVE NeighborLoop(_, _, _, _, _, _)
NeighborLoop(nbrs, i, path, end, vis, q) ==
  IF i > Len(nbrs) THEN [found |-> None, visited |-> vis, queue |-> q]
  ELSE IF nbrs[i] = end
       THEN [found |-> Append(path, nbrs[i]), visited |-> vis, queue |-> q]
       ELSE IF nbrs[i] \notin vis
            THEN NeighborLoop(nbrs, i + 1, path, end, vis \cup {nbrs[i]},
                              Append(q, [node |-> nbrs[i], path |-> Append(path, nbrs[i])]))
            ELSE NeighborLoop(nbrs, i + 1, path, end, vis, q)

\* ---------------------------------------------------- find_k_shortest_paths
\* e goes behind every entry that is not longer
RECURSIVE InsertByLength(_, _)
InsertByLength(sorted, e) ==
  IF sorted = <<>> THEN <<e>>
  ELSE IF Head(sorted).length <= e.length
       THEN <<Head(sorted)>> \o InsertByLength(Tail(sorted), e)
       ELSE <<e>> \o sorted

\* queue.sort(key=lambda x: x[0]): a stable sort by the length field
RECURSIVE sort_by_length(_)
sort_by_length(q) ==
  IF q = <<>> THEN <<>>
  ELSE InsertByLength(sort_by_length(SubSeq(q, 1, Len(q) - 1)), q[Len(q)])

\* queue.pop(-1)
pop_last(q) == [entry |-> q[Len(q)], rest |-> SubSeq(q, 1, Len(q) - 1)]

\* queue.pop(0)
pop_first(q) == [entry |-> Head(q), rest |-> Tail(q)]

\* the cycle test left out
always_extend(neighbor, path) == TRUE

\* neighbor not in path
not_in_path(neighbor, path) == \A i \in 1..Len(path) : path[i] # neighbor

\* for neighbor in graph[current]: queue.append((len(new_path), new_path));
\* the field order numbers the insertions into the frontier and is never read by the search
RECURSIVE ExpandLoop(_, _, _, _, _)
ExpandLoop(nbrs, i, path, q, n) ==
  IF i > Len(nbrs) THEN q
  ELSE IF not_in_path(nbrs[i], path)
       THEN ExpandLoop(nbrs, i + 1, path,
                       Append(q, [length |-> Len(path) + 1,
                                  path |-> Append(path, nbrs[i]),
                                  order |-> n + 1]),
                       n + 1)
       ELSE ExpandLoop(nbrs, i + 1, path, q, n)

\* ------------------------------------------------------------- the handlers
\* every edge of the data from path[i] to path[i + 1], for every i: the loop without break
RECURSIVE path_edges_all(_, _, _)
path_edges_all(data, path, i) ==
  IF i >= Len(path) THEN <<>>
  ELSE LET Joins(edge) == edge.source = path[i] /\ edge.target = path[i + 1]
       IN  SelectSeq(data.edges, Joins) \o path_edges_all(data, path, i + 1)

\* the first edge of the data from path[i] to path[i + 1], for every i
RECURSIVE path_edges_of(_, _, _)
path_edges_of(data, path, i) ==
  IF i >= Len(path) THEN <<>>
  ELSE LET hits == { j \in 1..Len(data.edges) :
                       /\ data.edges[j].source = path[i]
                       /\ data.edges[j].target = path[i + 1] }
       IN  (IF hits = {} THEN <<>>
            ELSE <<data.edges[CHOOSE j \in hits : \A h \in hits : j <= h]>>)
           \o path_edges_of(data, path, i + 1)

path_entry(data, path) ==
  [path |-> path, length |-> Len(path) - 1, edges |-> path_edges_of(data, path, 1)]

\* jsonify({"error": ...}), status
ErrorResponse(status) == [status |-> status, body |-> <<"error">>]

PathInit ==
  /\ HypergraphIdle
  /\ CommunityIdle
  /\ MieIdle
  /\ \/ /\ path_op = "shortest"
        /\ path_via = "direct"
        /\ \E es \in PathEdgeLists(MaxPathEdges) : path_data = [nodes |-> PathNodes, edges |-> es]
        /\ \E t \in ShortestTerminals : path_start = t[1] /\ path_end = t[2]
        /\ path_k_arg = Missing
        /\ path_k = DefaultK
     \/ /\ path_op = "k_shortest"
        /\ path_via = "direct"
        /\ \E es \in PathEdgeLists(MaxPathEdges) : path_data = [nodes |-> PathNodes, edges |-> es]
        /\ \E t \in KShortestTerminals : path_start = t[1] /\ path_end = t[2]
        /\ path_k_arg = Missing
        /\ path_k \in 1..MaxK
     \/ /\ path_op \in {"shortest", "k_shortest"}
        /\ path_via = "direct"
        /\ path_data \in SampleData
        /\ path_start = <<"A">>
        /\ path_end \in {<<"D">>, <<"E">>}
        /\ path_k_arg = Missing
        /\ path_k \in 1..MaxK
     \/ /\ path_op = "k_shortest"
        /\ path_via = "direct"
        /\ path_data = ParallelData
        /\ path_start = <<"A">>
        /\ path_end = <<"B">>
        /\ path_k_arg = Missing
        /\ path_k \in 1..DefaultK
     \/ /\ path_op \in {"shortest", "k_shortest"}
        /\ path_via = "direct"
        /\ path_data = AuthorsSampleData
        /\ path_start = <<"MIE", "_", "1">>
        /\ path_end \in {<<"AO", "_", "1">>, <<"AO", "_", "2">>}
        /\ path_k_arg = Missing
        /\ path_k \in 1..MaxK
     \/ /\ path_op = "shortest"
        /\ path_via = "endpoint"
        /\ path_data \in EndpointData
        /\ \E t \in EndpointTerminals : path_start = t[1] /\ path_end = t[2]
        /\ path_k_arg = Missing
        /\ path_k = DefaultK
     \/ /\ path_op = "k_shortest"
        /\ path_via = "endpoint"
        /\ path_data \in EndpointData
        /\ \E t \in EndpointTerminals : path_start = t[1] /\ path_end = t[2]
        /\ path_k_arg \in KArgs
        /\ path_k = DefaultK
  /\ graph = <<>>
  /\ queue = <<>>
  /\ visited = {}
  /\ paths = <<>>
  /\ insertions = 0
  /\ path_orders = <<>>
  /\ path_pc = IF path_via = "endpoint" THEN "request" ELSE "build_graph"
  /\ path_result = None
  /\ path_response = NoPathResponse

\* get_shortest_path, lines 680-698, and get_k_shortest_paths, lines 726-745
GetPathRequest ==
  /\ path_pc = "request"
  /\ LET given == path_op = "k_shortest" /\ path_k_arg # Missing
     IN  IF given /\ ~IsIntLiteral(path_k_arg)
         THEN \* int() raises ValueError outside the try block
              /\ path_response' = ErrorResponse(500)
              /\ path_pc' = "responded"
              /\ UNCHANGED path_k
         ELSE /\ path_k' = IF given THEN int_of(path_k_arg) ELSE DefaultK
              /\ IF ~Truthy(path_start) \/ ~Truthy(path_end)
                 THEN path_response' = ErrorResponse(400) /\ path_pc' = "responded"
                 ELSE IF path_data.nodes = <<>>
                      THEN path_response' = ErrorResponse(400) /\ path_pc' = "responded"
                      ELSE path_pc' = "build_graph" /\ UNCHANGED path_response
  /\ UNCHANGED <<path_op, path_via, path_data, path_start, path_end, path_k_arg,
                 graph, queue, visited, paths, insertions, path_orders, path_result>>
  /\ UNCHANGED <<hypergraph_vars, community_vars, mie_vars>>

\* graph = build_graph_from_data(data)
BuildGraphFromData ==
  /\ path_pc = "build_graph"
  /\ graph' = build_graph_from_data(path_data)
  /\ path_pc' = "call"
  /\ UNCHANGED <<path_op, path_via, path_data, path_start, path_end, path_k_arg, path_k,
                 queue, visited, paths, insertions, path_orders, path_result, path_response>>
  /\ UNCHANGED <<hypergraph_vars, community_vars, mie_vars>>

\* find_shortest_path, lines 634-638
FindShortestPath ==
  /\ path_pc = "call"
  /\ path_op = "shortest"
  /\ IF path_start = path_end
     THEN /\ path_result' = <<path_start>>
          /\ path_pc' = "returned"
          /\ UNCHANGED <<queue, visited>>
     ELSE /\ queue' = <<[node |-> path_start, path |-> <<path_start>>]>>
          /\ visited' = {path_start}
          /\ path_pc' = "loop"
          /\ UNCHANGED path_result
  /\ UNCHANGED <<path_op, path_via, path_data, path_start, path_end, path_k_arg, path_k,
                 graph, paths, insertions, path_orders, path_response>>
  /\ UNCHANGED <<hypergraph_vars, community_vars, mie_vars>>

\* find_shortest_path, lines 640-651: one pass of the while loop, or its exit
ShortestPathStep ==
  /\ path_pc = "loop"
  /\ path_op = "shortest"
  /\ IF queue = <<>>
     THEN /\ path_result' = None
          /\ path_pc' = "returned"
          /\ UNCHANGED <<graph, queue, visited>>
     ELSE LET popped == popleft(queue)
              node == popped.entry.node
          IN  IF missing_key_raises(graph, node)
              THEN /\ path_result' = <<"KeyError">>
                   /\ path_pc' = "raised"
                   /\ queue' = popped.rest
                   /\ UNCHANGED <<graph, visited>>
              ELSE LET r == NeighborLoop(graph_get(graph, node), 1, popped.entry.path,
                                         path_end, visited, popped.rest)
                   IN  /\ graph' = graph_after_get(graph, node)
                       /\ queue' = r.queue
                       /\ visited' = r.visited
                       /\ IF r.found # None
                          THEN path_result' = r.found /\ path_pc' = "returned"
                          ELSE UNCHANGED <<path_result, path_pc>>
  /\ UNCHANGED <<path_op, path_via, path_data, path_start, path_end, path_k_arg, path_k,
                 paths, insertions, path_orders, path_response>>
  /\ UNCHANGED <<hypergraph_vars, community_vars, mie_vars>>

\* find_k_shortest_paths, lines 655-659
FindKShortestPaths ==
  /\ path_pc = "call"
  /\ path_op = "k_shortest"
  /\ IF path_start = path_end
     THEN /\ path_result' = << <<path_start>> >>
          /\ path_pc' = "returned"
          /\ UNCHANGED <<queue, paths, insertions, path_orders>>
     ELSE /\ paths' = <<>>
          /\ queue' = <<[length |-> 0, path |-> <<path_start>>, order |-> 1]>>
          /\ insertions' = 1
          /\ path_orders' = <<>>
          /\ path_pc' = "loop"
          /\ UNCHANGED path_result
  /\ UNCHANGED <<path_op, path_via, path_data, path_start, path_end, path_k_arg, path_k,
                 graph, visited, path_response>>
  /\ UNCHANGED <<hypergraph_vars, community_vars, mie_vars>>

\* find_k_shortest_paths, lines 661-675: one pass of the while loop, or its exit
KShortestPathsStep ==
  /\ path_pc = "loop"
  /\ path_op = "k_shortest"
  /\ IF queue # <<>> /\ Len(paths) < path_k
     THEN LET popped == pop_first(sort_by_length(queue))
              path == popped.entry.path
              current == path[Len(path)]
          IN  IF current = path_end
              THEN /\ paths' = Append(paths, path)
                   /\ path_orders' = Append(path_orders, popped.entry.order)
                   /\ queue' = popped.rest
                   /\ UNCHANGED <<graph, insertions, path_result, path_pc>>
              ELSE IF missing_key_raises(graph, current)
                   THEN /\ path_result' = <<"KeyError">>
                        /\ path_pc' = "raised"
                        /\ queue' = popped.rest
                        /\ UNCHANGED <<graph, paths, insertions, path_orders>>
                   ELSE /\ graph' = graph_after_get(graph, current)
                        /\ queue' = ExpandLoop(graph_get(graph, current), 1, path,
                                               popped.rest, insertions)
                        /\ insertions' = insertions + Len(queue') - Len(popped.rest)
                        /\ UNCHANGED <<paths, path_orders, path_result, path_pc>>
     ELSE /\ path_result' = paths
          /\ path_pc' = "returned"
          /\ UNCHANGED <<graph, queue, paths, insertions, path_orders>>
  /\ UNCHANGED <<path_op, path_via, path_data, path_start, path_end, path_k_arg, path_k,
                 visited, path_response>>
  /\ UNCHANGED <<hypergraph_vars, community_vars, mie_vars>>

\* get_shortest_path, lines 703-720
RespondShortestPath ==
  /\ path_pc \in {"returned", "raised"}
  /\ path_via = "endpoint"
  /\ path_op = "shortest"
  /\ path_response' =
       IF path_pc = "raised" THEN ErrorResponse(500)
       ELSE IF path_result # None /\ path_result # <<>>
            THEN [status |-> 200, body |-> path_entry(path_data, path_result)]
            ELSE [status |-> 200, body |-> [path |-> None]]
  /\ path_pc' = "responded"
  /\ UNCHANGED <<path_op, path_via, path_data, path_start, path_end, path_k_arg, path_k,
                 graph, queue, visited, paths, insertions, path_orders, path_result>>
  /\ UNCHANGED <<hypergraph_vars, community_vars, mie_vars>>

\* get_k_shortest_paths, lines 750-772
RespondKShortestPaths ==
  /\ path_pc \in {"returned", "raised"}
  /\ path_via = "endpoint"
  /\ path_op = "k_shortest"
  /\ path_response' =
       IF path_pc = "raised" THEN ErrorResponse(500)
       ELSE [status |-> 200,
             body |-> [paths |-> [i \in 1..Len(path_result) |->
                                    path_entry(path_data, path_result[i])],
                       count |-> Len(path_result)]]
  /\ path_pc' = "responded"
  /\ UNCHANGED <<path_op, path_via, path_data, path_start, path_end, path_k_arg, path_k,
                 graph, queue, visited, paths, insertions, path_orders, path_result>>
  /\ UNCHANGED <<hypergraph_vars, community_vars, mie_vars>>

PathNext ==
  \/ GetPathRequest
  \/ BuildGraphFromData
  \/ FindShortestPath
  \/ ShortestPathStep
  \/ FindKShortestPaths
  \/ KShortestPathsStep
  \/ RespondShortestPath
  \/ RespondKShortestPaths

PathSpec == PathInit /\ [][PathNext]_vars

\* a call that has started keeps running: the interpreter executes the next statement
\* of the function or handler as long as there is one
PathFairSpec == PathSpec /\ WF_vars(PathNext)

\* ======================================================== community detector
\* the method names detect_communities is called with
MethodNames == {"louvain", "leiden", "walktrap", "spectral", "infomap"}

\* the keyword parameters each strategy method declares
AcceptedKwargs(method) ==
  CASE method = "louvain" -> {"resolution"}
    [] method = "leiden" -> {"resolution"}
    [] method = "walktrap" -> {"steps"}
    [] method = "spectral" -> {"k"}

\* the keyword arguments of the callers: the community endpoint passes resolution,
\* create_hypergraph passes none
CallerKwargs == { {"resolution"}, {} }

\* the routines of the clustering libraries a strategy relies on
LibraryRoutines ==
  {"louvain_communities", "girvan_newman", "sklearn", "SpectralClustering",
   "connected_components"}

CommunityEdgeLists ==
  { <<>>,
    << [source |-> <<"A">>, target |-> <<"B">>, type |-> Missing, aop |-> Missing] >> }

\* the partitions of a set of nodes: what a clustering routine may return
Partitions(S) ==
  { P \in SUBSET (SUBSET S \ {{}}) :
      /\ UNION P = S
      /\ \A X, Y \in P : X # Y => X \cap Y = {} }

\* the nodes linked to node n by an edge of the graph
Neighbours(g, n) == { m \in g.nodes : {n, m} \in g.edges }

RECURSIVE ComponentOf(_, _)
ComponentOf(g, S) ==
  LET next == S \cup UNION { Neighbours(g, n) : n \in S }
  IN  IF next = S THEN S ELSE ComponentOf(g, next)

\* nx.connected_components(self.graph)
connected_components(g) == { ComponentOf(g, {n}) : n \in g.nodes }

\* not self.graph: a graph without nodes is falsy
graph_is_falsy(g) == g.nodes = {}

CommunityResult(method, communities) == [method |-> method, communities |-> communities]

\* an exception that leaves detect_communities
Propagated(exception) == [method |-> "<raised>", communities |-> exception]

CommunityInit ==
  /\ HypergraphIdle
  /\ PathIdle
  /\ MieIdle
  /\ cd_method \in MethodNames
  /\ cd_kwargs \in CallerKwargs
  /\ cd_nodes \in FewNodeLists
  /\ cd_edges \in CommunityEdgeLists
  /\ cd_lib \in SUBSET LibraryRoutines
  /\ cd_graph = NoGraph
  /\ cd_pc = "build_graph"
  /\ cd_result = None

\* detect_communities, lines 693-694
CommunityBuildGraph ==
  /\ cd_pc = "build_graph"
  /\ cd_graph' = BuiltGraph(cd_nodes, cd_edges)
  /\ cd_pc' = "dispatch"
  /\ UNCHANGED <<cd_method, cd_kwargs, cd_nodes, cd_edges, cd_lib, cd_result>>
  /\ UNCHANGED <<hypergraph_vars, path_vars, mie_vars>>

\* detect_communities, lines 696-707: method_map[method](**kwargs)
DispatchMethod ==
  /\ cd_pc = "dispatch"
  /\ cd_method' = IF cd_method \in {"louvain", "leiden", "walktrap", "spectral"}
                  THEN cd_method ELSE "louvain"
  /\ IF cd_kwargs \subseteq AcceptedKwargs(cd_method')
     THEN cd_pc' = cd_method' /\ UNCHANGED cd_result
     ELSE cd_pc' = "raised" /\ cd_result' = Propagated("TypeError")
  /\ UNCHANGED <<cd_kwargs, cd_nodes, cd_edges, cd_graph, cd_lib>>
  /\ UNCHANGED <<hypergraph_vars, path_vars, mie_vars>>

\* detect_communities_louvain
DetectCommunitiesLouvain ==
  /\ cd_pc = "louvain"
  /\ IF graph_is_falsy(cd_graph)
     THEN cd_pc' = "raised" /\ cd_result' = Propagated("ValueError")
     ELSE IF "louvain_communities" \in cd_lib
          THEN cd_pc' = "fallback" /\ UNCHANGED cd_result
          ELSE /\ cd_pc' = "returned"
               /\ \E communities \in Partitions(cd_graph.nodes) :
                    cd_result' = CommunityResult("louvain", communities)
  /\ UNCHANGED <<cd_method, cd_kwargs, cd_nodes, cd_edges, cd_graph, cd_lib>>
  /\ UNCHANGED <<hypergraph_vars, path_vars, mie_vars>>

\* detect_communities_leiden: return self.detect_communities_louvain(resolution)
DetectCommunitiesLeiden ==
  /\ cd_pc = "leiden"
  /\ IF graph_is_falsy(cd_graph)
     THEN cd_pc' = "raised" /\ cd_result' = Propagated("ValueError")
     ELSE cd_pc' = "louvain" /\ UNCHANGED cd_result
  /\ UNCHANGED <<cd_method, cd_kwargs, cd_nodes, cd_edges, cd_graph, cd_lib>>
  /\ UNCHANGED <<hypergraph_vars, path_vars, mie_vars>>

\* detect_communities_walktrap: the loop over the partitions of girvan_newman breaks
\* on the first partition of more than len(nodes) // 10 communities, and a partition
\* has at least one; without a best partition the fallback runs
DetectCommunitiesWalktrap ==
  /\ cd_pc = "walktrap"
  /\ IF graph_is_falsy(cd_graph)
     THEN cd_pc' = "raised" /\ cd_result' = Propagated("ValueError")
     ELSE IF "girvan_newman" \in cd_lib \/ 1 > Cardinality(cd_graph.nodes) \div 10
          THEN cd_pc' = "fallback" /\ UNCHANGED cd_result
          ELSE \/ cd_pc' = "fallback" /\ UNCHANGED cd_result
               \/ /\ cd_pc' = "returned"
                  /\ \E communities \in Partitions(cd_graph.nodes) :
                       cd_result' = CommunityResult("walktrap", communities)
  /\ UNCHANGED <<cd_method, cd_kwargs, cd_nodes, cd_edges, cd_graph, cd_lib>>
  /\ UNCHANGED <<hypergraph_vars, path_vars, mie_vars>>

\* detect_communities_spectral
DetectCommunitiesSpectral ==
  /\ cd_pc = "spectral"
  /\ IF graph_is_falsy(cd_graph)
     THEN cd_pc' = "raised" /\ cd_result' = Propagated("ValueError")
     ELSE IF "sklearn" \in cd_lib
          THEN cd_pc' = "louvain" /\ UNCHANGED cd_result
          ELSE IF "SpectralClustering" \in cd_lib
               THEN cd_pc' = "fallback" /\ UNCHANGED cd_result
               ELSE /\ cd_pc' = "returned"
                    /\ \E communities \in Partitions(cd_graph.nodes) :
                         cd_result' = CommunityResult("spectral", communities)
  /\ UNCHANGED <<cd_method, cd_kwargs, cd_nodes, cd_edges, cd_graph, cd_lib>>
  /\ UNCHANGED <<hypergraph_vars, path_vars, mie_vars>>

\* _fallback_community_detection
FallbackCommunityDetection ==
  /\ cd_pc = "fallback"
  /\ cd_result' =
       IF graph_is_falsy(cd_graph) THEN CommunityResult("none", {})
       ELSE IF "connected_components" \in cd_lib THEN CommunityResult("error", {})
       ELSE CommunityResult("connected_components", connected_components(cd_graph))
  /\ cd_pc' = "returned"
  /\ UNCHANGED <<cd_method, cd_kwargs, cd_nodes, cd_edges, cd_graph, cd_lib>>
  /\ UNCHANGED <<hypergraph_vars, path_vars, mie_vars>>

CommunityNext ==
  \/ CommunityBuildGraph
  \/ DispatchMethod
  \/ DetectCommunitiesLouvain
  \/ DetectCommunitiesLeiden
  \/ DetectCommunitiesWalktrap
  \/ DetectCommunitiesSpectral
  \/ FallbackCommunityDetection

CommunitySpec == CommunityInit /\ [][CommunityNext]_vars

\* ============================================ initiating events to outcomes
\* tests/test_pathfinding_algorithms.py imports find_mie_to_ao_paths and
\* filter_nodes_by_type from main, and main.py defines neither: both follow their
\* description in the specification document, over the path search of main.py.

\* the cross product takes the first 5 nodes of each subset
MaxPerSubset == 5

MaxMieEdges == 2

\* the type patterns of the two subsets
MiePatterns == { <<"MIE">>, <<"molecular", "_", "initiating", "_", "event">> }

AoPatterns == { <<"AO">>, <<"adverse", "_", "outcome">> }

MieNodePool ==
  << [id |-> <<"MIE", "_", "1">>, type |-> <<"molecular", "_", "initiating", "_", "event">>],
     [id |-> <<"mie", "_", "2">>, type |-> Missing],
     [id |-> <<"KE", "_", "1">>, type |-> <<"key", "_", "event">>],
     [id |-> <<"AO", "_", "1">>, type |-> <<"adverse", "_", "outcome">>],
     [id |-> <<"Event", ":", "5">>, type |-> <<"Adverse", "_", "Outcome">>] >>

\* the nodes of the pool at the positions S, in the pool's order
RECURSIVE Pick(_, _, _)
Pick(pool, S, i) ==
  IF i > Len(pool) THEN <<>>
  ELSE (IF i \in S THEN <<pool[i]>> ELSE <<>>) \o Pick(pool, S, i + 1)

MieNodeLists == { Pick(MieNodePool, S, 1) : S \in SUBSET (1..Len(MieNodePool)) }

MieEdgePool ==
  { [source |-> <<"MIE", "_", "1">>, target |-> <<"KE", "_", "1">>],
    [source |-> <<"KE", "_", "1">>, target |-> <<"AO", "_", "1">>],
    [source |-> <<"MIE", "_", "1">>, target |-> <<"AO", "_", "1">>],
    [source |-> <<"mie", "_", "2">>, target |-> <<"AO", "_", "1">>],
    [source |-> <<"AO", "_", "1">>, target |-> <<"MIE", "_", "1">>] }

MieEdgeLists == UNION { [1..n -> MieEdgePool] : n \in 0..MaxMieEdges }

\* str.lower() of one atom
LowerAtom(a) ==
  CASE a = "MIE" -> "mie"
    [] a = "AO" -> "ao"
    [] a = "KE" -> "ke"
    [] a = "Event" -> "event"
    [] a = "Adverse" -> "adverse"
    [] a = "Outcome" -> "outcome"
    [] OTHER -> a

\* str.lower()
lower(s) == [i \in 1..Len(s) |-> LowerAtom(s[i])]

\* needle in haystack, for strings
is_substring(needle, haystack) ==
  \E i \in 0..(Len(haystack) - Len(needle)) :
    SubSeq(haystack, i + 1, i + Len(needle)) = needle

\* the nodes whose type or id holds one of the patterns, without regard to case
filter_nodes_by_type(node_list, patterns) ==
  LET Matches(node) ==
        \E p \in patterns :
          \/ is_substring(lower(p), lower(Get(node.type, <<>>)))
          \/ is_substring(lower(p), lower(node.id))
  IN  SelectSeq(node_list, Matches)

FirstN(s, n) == SubSeq(s, 1, IF Len(s) < n THEN Len(s) ELSE n)

\* find_k_shortest_paths as one call: the while loop of lines 661-675 run to its end
RECURSIVE KShortestLoop(_, _, _, _, _, _)
KShortestLoop(g, q, found, end, k, n) ==
  IF q # <<>> /\ Len(found) < k
  THEN LET popped == pop_first(sort_by_length(q))
           path == popped.entry.path
           current == path[Len(path)]
       IN  IF current = end
           THEN KShortestLoop(g, popped.rest, Append(found, path), end, k, n)
           ELSE IF missing_key_raises(g, current)
                THEN [raised |-> TRUE, paths |-> found, graph |-> g]
                ELSE LET extended == ExpandLoop(graph_get(g, current), 1, path,
                                                popped.rest, n)
                     IN  KShortestLoop(graph_after_get(g, current), extended, found, end, k,
                                       n + Len(extended) - Len(popped.rest))
  ELSE [raised |-> FALSE, paths |-> found, graph |-> g]

find_k_shortest_paths(g, start, end, k) ==
  IF start = end
  THEN [raised |-> FALSE, paths |-> << <<start>> >>, graph |-> g]
  ELSE KShortestLoop(g, <<[length |-> 0, path |-> <<start>>, order |-> 1]>>, <<>>, end, k, 1)

\* e goes behind every entry that is not shorter
RECURSIVE InsertByLengthDescending(_, _)
InsertByLengthDescending(sorted, e) ==
  IF sorted = <<>> THEN <<e>>
  ELSE IF Head(sorted).length >= e.length
       THEN <<Head(sorted)>> \o InsertByLengthDescending(Tail(sorted), e)
       ELSE <<e>> \o sorted

\* the entries by descending length
RECURSIVE sort_by_length_descending(_)
sort_by_length_descending(q) ==
  IF q = <<>> THEN <<>>
  ELSE InsertByLengthDescending(sort_by_length_descending(SubSeq(q, 1, Len(q) - 1)),
                                q[Len(q)])

\* the pairs of the bounded cross product, initiating events outermost
MiePairs(sources, targets) ==
  LET s == FirstN(sources, MaxPerSubset)
      t == FirstN(targets, MaxPerSubset)
  IN  [i \in 1..(Len(s) * Len(t)) |->
         <<s[((i - 1) \div Len(t)) + 1], t[((i - 1) % Len(t)) + 1]>>]

\* the result for an empty subset: no paths and a message
EmptyMieResult(sources, targets) ==
  [paths |-> <<>>, message |-> <<"No", " ", "MIE", " ", "or", " ", "AO", " ", "nodes">>,
   mie_nodes |-> sources, ao_nodes |-> targets, total_found |-> 0]

MieResult(sources, targets, ranked, k) ==
  [paths |-> FirstN(ranked, k), message |-> Missing,
   mie_nodes |-> sources, ao_nodes |-> targets, total_found |-> Len(ranked)]

MieInit ==
  /\ HypergraphIdle
  /\ PathIdle
  /\ CommunityIdle
  /\ \E ns \in MieNodeLists, es \in MieEdgeLists : mie_data = [nodes |-> ns, edges |-> es]
  /\ mie_k \in 1..MaxK
  /\ mie_path_type \in {"shortest", "longest"}
  /\ mie_nodes = <<>>
  /\ mie_ao_nodes = <<>>
  /\ mie_graph = <<>>
  /\ mie_pair = 0
  /\ mie_found = <<>>
  /\ mie_pc = "select"
  /\ mie_result = None

\* the two subsets are selected by type
SelectSubsets ==
  /\ mie_pc = "select"
  /\ mie_nodes' = LET sel == filter_nodes_by_type(mie_data.nodes, MiePatterns)
                  IN  [i \in 1..Len(sel) |-> sel[i].id]
  /\ mie_ao_nodes' = LET sel == filter_nodes_by_type(mie_data.nodes, AoPatterns)
                     IN  [i \in 1..Len(sel) |-> sel[i].id]
  /\ mie_pc' = "check"
  /\ UNCHANGED <<mie_data, mie_k, mie_path_type, mie_graph, mie_pair, mie_found, mie_result>>
  /\ UNCHANGED <<hypergraph_vars, path_vars, community_vars>>

\* an empty subset ends the call with the empty result
ReturnEmptyResult ==
  /\ mie_pc = "check"
  /\ mie_nodes = <<>> \/ mie_ao_nodes = <<>>
  /\ mie_result' = EmptyMieResult(mie_nodes, mie_ao_nodes)
  /\ mie_pc' = "returned"
  /\ UNCHANGED <<mie_data, mie_k, mie_path_type, mie_nodes, mie_ao_nodes, mie_graph,
                 mie_pair, mie_found>>
  /\ UNCHANGED <<hypergraph_vars, path_vars, community_vars>>

\* graph = build_graph_from_data(data)
BuildMieGraph ==
  /\ mie_pc = "check"
  /\ mie_nodes # <<>> /\ mie_ao_nodes # <<>>
  /\ mie_graph' = build_graph_from_data(mie_data)
  /\ mie_pc' = "search"
  /\ UNCHANGED <<mie_data, mie_k, mie_path_type, mie_nodes, mie_ao_nodes, mie_pair,
                 mie_found, mie_result>>
  /\ UNCHANGED <<hypergraph_vars, path_vars, community_vars>>

\* up to k paths of the next pair of the cross product
SearchPair ==
  /\ mie_pc = "search"
  /\ mie_pair < Len(MiePairs(mie_nodes, mie_ao_nodes))
  /\ LET pair == MiePairs(mie_nodes, mie_ao_nodes)[mie_pair + 1]
         r == find_k_shortest_paths(mie_graph, pair[1], pair[2], mie_k)
     IN  /\ mie_graph' = r.graph
         /\ IF r.raised
            THEN /\ mie_result' = <<"KeyError">>
                 /\ mie_pc' = "raised"
                 /\ UNCHANGED <<mie_pair, mie_found>>
            ELSE /\ mie_found' = mie_found \o
                                   [i \in 1..Len(r.paths) |->
                                      [path |-> r.paths[i], length |-> Len(r.paths[i]) - 1]]
                 /\ mie_pair' = mie_pair + 1
                 /\ UNCHANGED <<mie_pc, mie_result>>
  /\ UNCHANGED <<mie_data, mie_k, mie_path_type, mie_nodes, mie_ao_nodes>>
  /\ UNCHANGED <<hypergraph_vars, path_vars, community_vars>>

\* the paths of all pairs, sorted by length and cut to the first k
ReturnRankedPaths ==
  /\ mie_pc = "search"
  /\ mie_pair = Len(MiePairs(mie_nodes, mie_ao_nodes))
  /\ mie_result' =
       MieResult(mie_nodes, mie_ao_nodes,
                 IF mie_path_type = "longest" THEN sort_by_length_descending(mie_found)
                 ELSE sort_by_length(mie_found),
                 mie_k)
  /\ mie_pc' = "returned"
  /\ UNCHANGED <<mie_data, mie_k, mie_path_type, mie_nodes, mie_ao_nodes, mie_graph,
                 mie_pair, mie_found>>
  /\ UNCHANGED <<hypergraph_vars, path_vars, community_vars>>

MieNext ==
  \/ SelectSubsets
  \/ ReturnEmptyResult
  \/ BuildMieGraph
  \/ SearchPair
  \/ ReturnRankedPaths

MieAoSpec == MieInit /\ [][MieNext]_vars

\* ===================================================================== claims
\* (source, target, type) of an edge, a missing field counting as ''
Triple(e) == <<Get(e.source, <<>>), Get(e.target, <<>>), Get(e.type, <<>>)>>

NoTwoShareTriple(es) ==
  \A i, j \in 1..Len(es) : Triple(es[i]) = Triple(es[j]) => i = j

Built == pc \in {"returned", "responded"}

AfterInputDedup == pc \notin {"start", "dedup_input"}

AfterTypeHypernodes == pc \notin {"start", "dedup_input", "type_hypernodes"}

AfterCrossLink == pc \in {"dedup_connections", "stats", "returned", "responded"}

\* C1: in the result of create_hypergraph_elements no two entries of 'edges' and
\* no two entries of 'hypernode_connections' share a (source, target, type) triple.
C1_ResultTriplesUnique ==
  Built => /\ NoTwoShareTriple(result.edges)
           /\ NoTwoShareTriple(result.hypernode_connections)

\* a build whose input held duplicate edges has returned edges and connections
C1_Witness ==
  /\ pc = "returned"
  /\ ~NoTwoShareTriple(edges)
  /\ Len(result.edges) >= 1
  /\ Len(result.edges) < Len(edges)
  /\ Len(result.hypernode_connections) >= 2

\* C2 (as claimed): the edge list of the /hypergraph response holds every
\* (source, target, type) triple of the request's edge list exactly once.
C2_ResponseEdgesDeduplicated ==
  pc = "responded" =>
    \A i \in 1..Len(edges) :
      Cardinality({ k \in 1..Len(response.edges) :
                      Triple(response.edges[k]) = Triple(edges[i]) }) = 1

\* the input edges that have no earlier edge with the same triple, in input order
RECURSIVE FirstOccurrences(_, _)
FirstOccurrences(es, i) ==
  IF i > Len(es) THEN <<>>
  ELSE (IF \E j \in 1..(i - 1) : Triple(es[j]) = Triple(es[i]) THEN <<>> ELSE <<es[i]>>)
       \o FirstOccurrences(es, i + 1)

\* C3 (as claimed): input dedup keeps, in input order, exactly the edges with no
\* earlier edge of the same source, target and type, and counts the rest as removed.
C3_KeepsFirstOfEachTriple ==
  AfterInputDedup =>
    /\ unique_edges = FirstOccurrences(edges, 1)
    /\ input_duplicates_removed = Len(edges) - Len(unique_edges)

\* the grouping buckets of the non-Stressor nodes
BucketOf(n) == Get(n.type, <<"Unknown">>)

Buckets == { BucketOf(nodes[i]) : i \in 1..Len(nodes) } \ { <<"Stressor">> }

BucketMembers(t) ==
  LET ns == SelectSeq(nodes, LAMBDA n : BucketOf(n) = t)
  IN  [i \in 1..Len(ns) |-> ns[i].id]

TypeHypernodesFor(t) ==
  SelectSeq(hypernodes, LAMBDA h : h.type = <<"type-hypernode">> /\ h.original_type = t)

\* M: max_per_hypernode, 0 or below treated as 1
EffectiveMax == IF min_nodes <= 0 THEN 1 ELSE min_nodes

CeilDiv(n, m) == (n + m - 1) \div m

\* C4: a type with N members yields ceil(N/M) type-hypernodes of at most M members,
\* the k-th being the k-th consecutive slice of the members in input order.
C4_ChunkCoverage ==
  AfterTypeHypernodes =>
    \A t \in Buckets :
      LET members == BucketMembers(t)
          hns == TypeHypernodesFor(t)
      IN  /\ Len(hns) = CeilDiv(Len(members), EffectiveMax)
          /\ \A k \in 1..Len(hns) :
               /\ Len(hns[k].members) <= EffectiveMax
               /\ hns[k].member_count = Len(hns[k].members)
               /\ hns[k].members =
                    SubSeq(members, (k - 1) * EffectiveMax + 1,
                           IF k * EffectiveMax > Len(members) THEN Len(members)
                           ELSE k * EffectiveMax)
          /\ \A k1, k2 \in 1..Len(hns) : \A a \in 1..Len(hns[k1].members) :
               \A b \in 1..Len(hns[k2].members) :
                 hns[k1].members[a] = hns[k2].members[b] => (k1 = k2 /\ a = b)

\* three nodes of one type were split into a chunk of two and a chunk of one
C4_Witness ==
  /\ pc = "returned"
  /\ min_nodes = 2
  /\ \E t \in Buckets :
       /\ Len(BucketMembers(t)) = 3
       /\ Len(TypeHypernodesFor(t)) = 2
       /\ Len(TypeHypernodesFor(t)[2].members) = 1

IdsOf(hns) == [i \in 1..Len(hns) |-> hns[i].id]

MembersOf(hns) == [i \in 1..Len(hns) |-> hns[i].members]

\* C5: a second build on the same input, on this processor or a new one, yields the
\* hypernode ids, member lists and connection count of the first build.
C5_Idempotent ==
  (pc = "returned" /\ run > 1) =>
    /\ IdsOf(result.hypernodes) = IdsOf(prev_result.hypernodes)
    /\ MembersOf(result.hypernodes) = MembersOf(prev_result.hypernodes)
    /\ Len(result.hypernode_connections) = Len(prev_result.hypernode_connections)
    /\ result.stats = prev_result.stats

\* a second build of a non-trivial hypergraph has returned
C5_Witness ==
  /\ pc = "returned"
  /\ run = 2
  /\ Len(result.hypernodes) >= 2
  /\ Len(result.hypernode_connections) >= 2

StressorHypernodeIds ==
  { result.hypernodes[k].id :
      k \in { j \in 1..Len(result.hypernodes) :
                result.hypernodes[j].type = <<"stressor-hypernode">> } }

\* the connections of the result that lead from node id s to a stressor-hypernode
StressorLinks(s) ==
  { c \in 1..Len(result.hypernode_connections) :
      /\ result.hypernode_connections[c].source = s
      /\ result.hypernode_connections[c].target \in StressorHypernodeIds }

StressorIndices == { i \in 1..Len(nodes) : nodes[i].type = <<"Stressor">> }

\* the stressors whose pathway id normalizes to a non-empty key
KeyedStressorIndices ==
  { i \in StressorIndices : extract_aop_id(aop_raw_of(nodes[i])) # <<>> }

\* C6 (as claimed): with exclude_stressor_hypernodes = False every Stressor node is
\* the source of exactly one connection to a stressor-hypernode.
C6_EveryStressorLinkedOnce ==
  (pc = "returned" /\ ~exclude_stressor_hypernodes) =>
    \A i \in StressorIndices : Cardinality(StressorLinks(nodes[i].id)) = 1

\* C6 (amended): with exclude_stressor_hypernodes = False every Stressor node whose
\* pathway id normalizes to a non-empty key is the source of exactly one connection
\* to a stressor-hypernode.
C6_KeyedStressorLinkedOnce ==
  (pc = "returned" /\ ~exclude_stressor_hypernodes) =>
    \A i \in KeyedStressorIndices : Cardinality(StressorLinks(nodes[i].id)) = 1

\* two keyed stressors of one pathway, one of them under the bare key, are linked
C6_Witness ==
  /\ pc = "returned"
  /\ ~exclude_stressor_hypernodes
  /\ \E i, j \in KeyedStressorIndices :
       /\ i # j
       /\ nodes[i].aop_id = Missing
       /\ aop_key_of(nodes[i]) = aop_key_of(nodes[j])
       /\ Cardinality(StressorLinks(nodes[i].id)) = 1

\* raw pathway-id values
RawAopValues ==
  { <<"Aop", ":", "3", "1", "5">>, <<"AOP", ":", "3", "1", "5">>, <<"3", "1", "5">>,
    <<"Aop", ":", "1", "2">>, <<"1", "2">>, <<"none">>, <<"Aop", ":">>, <<":">>, <<>> }

StressorHypernodesOfResult ==
  SelectSeq(result.hypernodes, LAMBDA h : h.type = <<"stressor-hypernode">>)

\* C7: "Aop:315", "AOP:315" and "315" normalize to one digits-only key, a value
\* without digits normalizes to '', and the stressors of one key are the members of
\* one stressor-hypernode, there being one stressor-hypernode per distinct key.
C7_PathwayIdNormalization ==
  /\ extract_aop_id(<<"Aop", ":", "3", "1", "5">>) = <<"3", "1", "5">>
  /\ extract_aop_id(<<"AOP", ":", "3", "1", "5">>) = <<"3", "1", "5">>
  /\ extract_aop_id(<<"3", "1", "5">>) = <<"3", "1", "5">>
  /\ \A raw \in RawAopValues : ~HasDigit(raw) => extract_aop_id(raw) = <<>>
  /\ (pc = "returned" /\ ~exclude_stressor_hypernodes) =>
       /\ \A i \in KeyedStressorIndices :
            Cardinality({ k \in 1..Len(StressorHypernodesOfResult) :
                            \E m \in 1..Len(StressorHypernodesOfResult[k].members) :
                              StressorHypernodesOfResult[k].members[m] = nodes[i].id }) = 1
       /\ \A i, j \in KeyedStressorIndices :
            extract_aop_id(aop_raw_of(nodes[i])) = extract_aop_id(aop_raw_of(nodes[j])) =>
              \E k \in 1..Len(StressorHypernodesOfResult) :
                /\ \E m \in 1..Len(StressorHypernodesOfResult[k].members) :
                     StressorHypernodesOfResult[k].members[m] = nodes[i].id
                /\ \E m \in 1..Len(StressorHypernodesOfResult[k].members) :
                     StressorHypernodesOfResult[k].members[m] = nodes[j].id
       /\ Len(StressorHypernodesOfResult) =
            Cardinality({ extract_aop_id(aop_raw_of(nodes[i])) : i \in KeyedStressorIndices })

\* three stressors carrying "Aop:315", "AOP:315" and "315" ended up in one hypernode
C7_Witness ==
  /\ pc = "returned"
  /\ ~exclude_stressor_hypernodes
  /\ Len(StressorHypernodesOfResult) = 1
  /\ Len(StressorHypernodesOfResult[1].members) = 3
  /\ \E i, j, k \in StressorIndices :
       /\ aop_raw_of(nodes[i]) = <<"Aop", ":", "3", "1", "5">>
       /\ aop_raw_of(nodes[j]) = <<"AOP", ":", "3", "1", "5">>
       /\ aop_raw_of(nodes[k]) = <<"3", "1", "5">>

NoOutcomeNode ==
  \A i \in 1..Len(nodes) : ~Contains(Get(nodes[i].type, <<>>), "AdverseOutcome")

CrossLinks(conns) == SelectSeq(conns, LAMBDA c : c.type = <<"stressor-adverse-hyperedge">>)

\* C8: without an Outcome-typed node the cross-link step adds no connection, and the
\* build goes on to its normal result.
C8_NoOutcomeNoCrossLink ==
  (AfterCrossLink /\ NoOutcomeNode) =>
    /\ connections_created = 0
    /\ CrossLinks(hypernode_connections) = <<>>
    /\ Built => CrossLinks(result.hypernode_connections) = <<>>

\* a build with a stressor-hypernode and no outcome node has returned its result
C8_Witness ==
  /\ pc = "returned"
  /\ NoOutcomeNode
  /\ Len(StressorHypernodesOfResult) >= 1
  /\ result.stats.stressor_hypernodes >= 1

OutcomeHypernodeIndices ==
  { k \in 1..Len(hypernodes) :
      /\ hypernodes[k].type = <<"type-hypernode">>
      /\ Contains(Get(hypernodes[k].original_type, <<>>), "AdverseOutcome") }

FirstOutcomeHypernode ==
  hypernodes[CHOOSE k \in OutcomeHypernodeIndices : \A j \in OutcomeHypernodeIndices : k <= j]

\* C9: when an Outcome type-hypernode exists, every stressor-hypernode has exactly
\* one cross-link, to the first such hypernode in creation order; there are as many
\* cross-links as stressor-hypernodes.
C9_CrossLinkToFirstOutcome ==
  (AfterCrossLink /\ OutcomeHypernodeIndices # {}) =>
    LET links == CrossLinks(hypernode_connections)
        shns == stressor_hypernodes_of(hypernodes)
    IN  /\ Len(links) = Len(shns)
        /\ connections_created = Len(shns)
        /\ \A c \in 1..Len(links) : links[c].target = FirstOutcomeHypernode.id
        /\ \A k \in 1..Len(shns) :
             Cardinality({ c \in 1..Len(links) : links[c].source = shns[k].id }) = 1

\* a stressor-hypernode was linked while two outcome hypernodes existed
C9_Witness ==
  /\ pc = "returned"
  /\ Cardinality(OutcomeHypernodeIndices) >= 2
  /\ Len(stressor_hypernodes_of(hypernodes)) >= 1
  /\ Len(CrossLinks(result.hypernode_connections)) >= 1

\* C10 (as claimed): every non-Stressor node whose type is missing or empty is a
\* member of a type-hypernode with original_type "Unknown".
C10_UntypedInUnknownBucket ==
  pc = "returned" =>
    \A i \in 1..Len(nodes) :
      (nodes[i].type = Missing \/ nodes[i].type = <<>>) =>
        \E k \in 1..Len(result.hypernodes) :
          /\ result.hypernodes[k].type = <<"type-hypernode">>
          /\ result.hypernodes[k].original_type = <<"Unknown">>
          /\ \E m \in 1..Len(result.hypernodes[k].members) :
               result.hypernodes[k].members[m] = nodes[i].id

\* C11 (as claimed): in the result of one build the hypernode ids are pairwise
\* distinct, and none of them is the id of an input node.
C11_HypernodeIdsDistinct ==
  pc = "returned" =>
    /\ \A i, j \in 1..Len(result.hypernodes) :
         result.hypernodes[i].id = result.hypernodes[j].id => i = j
    /\ \A i \in 1..Len(result.hypernodes) : \A n \in 1..Len(nodes) :
         result.hypernodes[i].id # nodes[n].id

\* C12 (as claimed): the stats of a build report the numbers of nodes and of edges
\* supplied to the call, the numbers of hypernodes and of connections returned, and
\* as totals the supplied plus the added.
C12_StatsCountSuppliedAndAdded ==
  pc = "returned" =>
    /\ result.stats.original_nodes = Len(nodes)
    /\ result.stats.original_edges = Len(edges)
    /\ result.stats.hypernodes = Len(result.hypernodes)
    /\ result.stats.hypernode_connections = Len(result.hypernode_connections)
    /\ result.stats.total_nodes = Len(nodes) + Len(result.hypernodes)
    /\ result.stats.total_edges = Len(edges) + Len(result.hypernode_connections)

\* the pairs (u, v) with v in graph[u]
Adjacency(g) ==
  UNION { { <<g[i].key, g[i].targets[j]>> : j \in 1..Len(g[i].targets) } : i \in 1..Len(g) }

FollowsEdges(path, g) ==
  \A i \in 1..(Len(path) - 1) : <<path[i], path[i + 1]>> \in Adjacency(g)

\* the nodes one edge away from a node of S
Successors(rel, S) == { p[2] : p \in { q \in rel : q[1] \in S } }

\* the least n <= max with e among the nodes n edges away from the nodes of S, else -1
RECURSIVE StepsTo(_, _, _, _, _)
StepsTo(rel, S, e, n, max) ==
  IF e \in S THEN n
  ELSE IF n >= max THEN 0 - 1
  ELSE StepsTo(rel, Successors(rel, S), e, n + 1, max)

\* the minimum edge count over the paths from s to e in g, -1 when there is none
MinEdgeCount(g, s, e) == StepsTo(Adjacency(g), {s}, e, 0, Cardinality(Adjacency(g)))

\* C13: when end is reachable from start, find_shortest_path returns a path that
\* begins at start, ends at end, follows only edges of the graph and has the minimum
\* edge count over all start-to-end paths; it is [start] when start = end.
C13_ShortestPathMinimal ==
  (path_op = "shortest" /\ path_pc = "returned"
     /\ MinEdgeCount(graph, path_start, path_end) >= 0) =>
    /\ path_result # None
    /\ Len(path_result) >= 1
    /\ path_result[1] = path_start
    /\ path_result[Len(path_result)] = path_end
    /\ FollowsEdges(path_result, graph)
    /\ Len(path_result) - 1 = MinEdgeCount(graph, path_start, path_end)
    /\ path_start = path_end => path_result = <<path_start>>

\* a two-edge path was returned from a graph that also holds a three-edge path
C13_Witness ==
  /\ path_op = "shortest"
  /\ path_pc = "returned"
  /\ path_data \in SampleData
  /\ <<<<"E">>, <<"D">>>> \in Adjacency(graph)
  /\ path_end = <<"D">>
  /\ path_result = <<<<"A">>, <<"B">>, <<"D">>>>

\* C14: when end is not reachable from start, find_shortest_path returns None and
\* find_k_shortest_paths returns [], and neither raises, also when start or end has no
\* outgoing edge or is no key of the adjacency map.
C14_UnreachableIsAbsent ==
  (path_pc \in {"returned", "raised"}
     /\ MinEdgeCount(graph, path_start, path_end) < 0) =>
    /\ path_pc = "returned"
    /\ path_op = "shortest" => path_result = None
    /\ path_op = "k_shortest" => path_result = <<>>

\* a search from a start that was no key of the adjacency map has returned the empty list
C14_Witness ==
  /\ path_op = "k_shortest"
  /\ path_pc = "returned"
  /\ path_start = <<"Z">>
  /\ ~HasKey(build_graph_from_data(path_data), path_start)
  /\ HasKey(build_graph_from_data(path_data), path_end)
  /\ path_result = <<>>

NoNodeTwice(path) == \A i, j \in 1..Len(path) : path[i] = path[j] => i = j

\* C15: every path returned by find_k_shortest_paths visits no node twice, on graphs
\* with cycles and self-loops too.
C15_PathsSimple ==
  (path_op = "k_shortest" /\ path_pc = "returned") =>
    \A i \in 1..Len(path_result) : NoNodeTwice(path_result[i])

\* a path through B was returned from a graph with the cycle A -> B -> A
C15_Witness ==
  /\ path_op = "k_shortest"
  /\ path_pc = "returned"
  /\ path_k = 2
  /\ <<<<"A">>, <<"B">>>> \in Adjacency(graph)
  /\ <<<<"B">>, <<"A">>>> \in Adjacency(graph)
  /\ path_result = << <<<<"A">>, <<"B">>, <<"C">>>> >>

\* C16: in the list returned by find_k_shortest_paths no path has fewer edges than the
\* path before it, and of two paths of equal length the one inserted into the frontier
\* first comes first.
C16_LengthThenInsertionOrder ==
  (path_op = "k_shortest" /\ path_pc = "returned") =>
    /\ \A i \in 1..(Len(path_result) - 1) :
         Len(path_result[i]) <= Len(path_result[i + 1])
    /\ path_start # path_end =>
         /\ Len(path_orders) = Len(path_result)
         /\ \A i \in 1..(Len(path_result) - 1) :
              Len(path_result[i]) = Len(path_result[i + 1]) =>
                path_orders[i] < path_orders[i + 1]

\* two paths of two edges each were returned, the one over B before the one over C
C16_Witness ==
  /\ path_op = "k_shortest"
  /\ path_pc = "returned"
  /\ path_result = << <<<<"A">>, <<"B">>, <<"D">>>>, <<<<"A">>, <<"C">>, <<"D">>>> >>
  /\ path_orders = <<4, 5>>

\* C17 (as claimed): find_k_shortest_paths returns at most k paths, for every graph,
\* start and end (start = end too) and every k it is called with.
C17_AtMostKPaths ==
  (path_op = "k_shortest" /\ path_pc = "returned") => Len(path_result) <= path_k

\* the request's k argument is an integer that is not positive
NonPositiveK ==
  /\ path_k_arg # Missing
  /\ IsIntLiteral(path_k_arg)
  /\ int_of(path_k_arg) <= 0

\* C18 (as claimed): a k-shortest-paths request with a non-positive k is rejected
\* before any path computation starts: no adjacency is built, no search runs, and the
\* answer is an error, not a path list.
C18_NonPositiveKRejected ==
  (path_op = "k_shortest" /\ path_via = "endpoint" /\ NonPositiveK) =>
    /\ path_pc \in {"request", "responded"}
    /\ path_pc = "responded" => path_response.status # 200

SuppliedIds(data) == { data.nodes[i].id : i \in 1..Len(data.nodes) }

\* C19 (as claimed): the adjacency built for a path query holds the pair (u, v) only
\* if u and v are ids of supplied nodes, and no returned path visits another node.
C19_AdjacencyWithinSuppliedNodes ==
  /\ \A p \in Adjacency(graph) :
       p[1] \in SuppliedIds(path_data) /\ p[2] \in SuppliedIds(path_data)
  /\ (path_pc = "returned" /\ path_op = "shortest" /\ path_result # None) =>
       \A i \in 1..Len(path_result) : path_result[i] \in SuppliedIds(path_data)
  /\ (path_pc = "returned" /\ path_op = "k_shortest") =>
       \A i \in 1..Len(path_result) : \A j \in 1..Len(path_result[i]) :
         path_result[i][j] \in SuppliedIds(path_data)

\* C20 (as claimed): detect_communities returns a result value and propagates no
\* exception, for every method name and for the keyword parameters its callers pass.
C20_NoExceptionPropagates ==
  /\ cd_pc # "raised"
  /\ cd_pc = "returned" => cd_result.method # "<raised>"

\* C21 (as claimed): the connected-components fallback is entered only from the primary
\* (Louvain) strategy: a walktrap or spectral strategy that fails internally hands over
\* to Louvain, never directly to the fallback.
C21_FallbackOnlyAfterPrimary ==
  [][cd_pc' = "fallback" => cd_pc = "louvain"]_vars

\* C22 (as claimed): community detection called with an empty node list returns a
\* result value describing the empty input and raises nothing.
C22_EmptyInputIsAResult ==
  cd_nodes = <<>> => cd_pc # "raised"

\* C24: find_mie_to_ao_paths raises nothing; when the initiating-event subset or the
\* outcome subset is empty it returns zero paths and a message; when both subsets are
\* present and the data has no edges it returns zero paths.
C24_EmptySubsetsGiveEmptyResult ==
  /\ mie_pc # "raised"
  /\ (mie_pc = "returned" /\ (mie_nodes = <<>> \/ mie_ao_nodes = <<>>)) =>
       /\ mie_result.paths = <<>>
       /\ Truthy(mie_result.message)
  /\ (mie_pc = "returned" /\ mie_data.edges = <<>>) => mie_result.paths = <<>>

\* both subsets were present, the data had no edges, and the call has returned
C24_Witness ==
  /\ mie_pc = "returned"
  /\ mie_nodes # <<>>
  /\ mie_ao_nodes # <<>>
  /\ mie_data.edges = <<>>

\* C29 (as claimed): the paths returned by one find_k_shortest_paths call are pairwise
\* distinct node sequences, whatever edges the adjacency map was built from.
C29_ReturnedPathsDistinct ==
  (path_pc = "returned" /\ path_op = "k_shortest") =>
    \A i, j \in 1..Len(path_result) : i # j => path_result[i] # path_result[j]

\* the simple paths that extend path along the pairs of rel and stop at e
RECURSIVE SimplePathsFrom(_, _, _)
SimplePathsFrom(rel, path, e) ==
  IF path[Len(path)] = e THEN {path}
  ELSE UNION { SimplePathsFrom(rel, Append(path, n), e) :
                 n \in { m \in Successors(rel, {path[Len(path)]}) :
                           NoNodeTwice(Append(path, m)) } }

\* the distinct simple paths from s to e in g
SimplePaths(g, s, e) == SimplePathsFrom(Adjacency(g), <<s>>, e)

\* C25 (as claimed): for start # end and k >= 1, when the graph has at least k distinct
\* simple paths from start to end, find_k_shortest_paths returns exactly k paths and no
\* simple path left out is strictly shorter than a returned one; when it has fewer than
\* k, every simple path from start to end is returned.
C25_KShortestComplete ==
  (path_op = "k_shortest" /\ path_pc = "returned"
     /\ path_start # path_end /\ path_k >= 1) =>
    LET all == SimplePaths(graph, path_start, path_end)
        returned == { path_result[i] : i \in 1..Len(path_result) }
    IN  IF Cardinality(all) >= path_k
        THEN /\ Len(path_result) = path_k
             /\ \A p \in all \ returned : \A r \in returned : Len(p) >= Len(r)
        ELSE all \subseteq returned

\* the position in the edge list of the first edge from u to v
EdgePosition(data, u, v) ==
  LET hits == { j \in 1..Len(data.edges) :
                  data.edges[j].source = u /\ data.edges[j].target = v }
  IN  CHOOSE j \in hits : \A h \in hits : j <= h

\* p and q have the same length and differ; at the first step where they part, the edge
\* p takes stands earlier in the edge list than the edge q takes
DiscoveredBefore(data, p, q) ==
  \E i \in 2..Len(p) :
    /\ \A j \in 1..(i - 1) : p[j] = q[j]
    /\ p[i] # q[i]
    /\ EdgePosition(data, p[i - 1], p[i]) < EdgePosition(data, q[i - 1], q[i])

\* C26: among the paths of minimum length from start to end, find_shortest_path returns
\* the one a breadth-first search discovers first when the neighbours of a node are
\* explored in the order of their edges in the edge list; the edge order decides the
\* result.
C26_FirstDiscoveredPath ==
  (path_op = "shortest" /\ path_pc = "returned" /\ path_result # None) =>
    \A q \in SimplePaths(build_graph_from_data(path_data), path_start, path_end) :
      (Len(q) = Len(path_result) /\ q # path_result) =>
        DiscoveredBefore(path_data, path_result, q)

\* on the authors' sample graph the path from MIE_1 to AO_1 goes through KE_2 and not
\* through KE_4
C26_Witness ==
  /\ path_op = "shortest"
  /\ path_pc = "returned"
  /\ path_data = AuthorsSampleData
  /\ path_end = <<"AO", "_", "1">>
  /\ path_result = << <<"MIE", "_", "1">>, <<"KE", "_", "1">>, <<"KE", "_", "2">>,
                      <<"KE", "_", "3">>, <<"AO", "_", "1">> >>
  /\ << <<"MIE", "_", "1">>, <<"KE", "_", "1">>, <<"KE", "_", "4">>,
        <<"KE", "_", "3">>, <<"AO", "_", "1">> >>
       \in SimplePaths(graph, path_start, path_end)

\* C27: find_shortest_path and find_k_shortest_paths terminate on every finite graph,
\* with cycles, self-loops and parallel edges too, for every start, end and k: every
\* call returns or raises, and every request is answered.
C27_SearchTerminates ==
  <>(path_pc \in {"returned", "raised", "responded"})

\* a search over a graph with the cycle A -> B -> A and the self-loop C -> C, whose end
\* cannot be reached, has returned
C27_Witness ==
  /\ path_pc = "returned"
  /\ path_via = "direct"
  /\ {<<<<"A">>, <<"B">>>>, <<<<"B">>, <<"A">>>>, <<<<"C">>, <<"C">>>>} \subseteq Adjacency(graph)
  /\ path_start = <<"A">>
  /\ path_end = <<"D">>

KeysOf(g) == { g[i].key : i \in 1..Len(g) }

\* C28 (as claimed): a path query leaves the adjacency map passed to it unchanged: when
\* the search has returned the map has the keys build_graph_from_data gave it, each with
\* the same neighbour list.
C28_AdjacencyMapUnchanged ==
  path_pc = "returned" =>
    LET built == build_graph_from_data(path_data)
    IN  /\ KeysOf(graph) = KeysOf(built)
        /\ \A key \in KeysOf(built) : graph_get(graph, key) = graph_get(built, key)

\* length is the number of nodes of path minus one, and edges has length entries, the
\* i-th from path[i] to path[i + 1]
WellFormedEntry(entry) ==
  /\ entry.length = Len(entry.path) - 1
  /\ Len(entry.edges) = entry.length
  /\ \A i \in 1..entry.length :
       /\ entry.edges[i].source = entry.path[i]
       /\ entry.edges[i].target = entry.path[i + 1]

\* C30: in every path entry the /shortest_path and /k_shortest_paths handlers return,
\* length is the number of nodes of path minus one and edges has exactly length entries,
\* the i-th of them leading from path[i] to path[i + 1].
C30_PathEntriesWellFormed ==
  (path_pc = "responded" /\ path_response.status = 200) =>
    /\ (path_op = "shortest" /\ path_response.body.path # None) =>
         WellFormedEntry(path_response.body)
    /\ path_op = "k_shortest" =>
         \A i \in 1..Len(path_response.body.paths) :
           WellFormedEntry(path_response.body.paths[i])

\* a /k_shortest_paths answer with a one-edge and a two-edge path
C30_Witness ==
  /\ path_pc = "responded"
  /\ path_op = "k_shortest"
  /\ path_response.status = 200
  /\ Len(path_response.body.paths) = 2
  /\ path_response.body.paths[1].length = 1
  /\ path_response.body.paths[2].length = 2
====
